---- MODULE Spec2Model ----
(***************************************************************************)
(* Model of the relay client (NetworkManager) of LeoProximityChat and of   *)
(* the wire protocol helpers it uses.                                       *)
(*                                                                          *)
(* Every member function is an operator from the object's fields (a record *)
(* o) to the fields after the call; an action applies one public operation *)
(* or one transport event to the current fields.  Strings are TLA+ strings, *)
(* byte buffers are sequences of 0..255.                                    *)
(***************************************************************************)
EXTENDS Integers, Sequences, FiniteSets, TLC

\* ------------------------------------------------------------------ bounds
\* The most samples a jitter buffer holds in the callback taken step by step.
MaxBuffered == 3840
\* The most packets the incoming queue is let drop in that callback's runs.
MaxQueueDropped == 1
\* The largest radius and distance given to the spatializer, in DistanceUnit.
MaxRadius == 8
\* Caps of the two telemetry counters (uint64 in the source).
MaxBytesSent == 3
MaxBytesReceived == 44
\* Number of items pushed onto the queue under test.
MaxPushes == 5
\* Number of samples captured between two stops of the streams.
MaxCaptured == 2880
\* The steady clock stops here, in milliseconds.
MaxNow == 2100
\* Concealment returns samples for a peer at most this many times in a row.
MaxPlcFrames == 2
\* Cap of the received-bytes counter while a burst of audio arrives.
MaxBurstBytes == 594

\* ------------------------------------------------------- protocol constants
MSG_AUDIO == 3
INCOMING_HEADER_SIZE == 21
SAMPLE_RATE == 48000
CHANNELS_STEREO == 2
FRAME_DURATION_MS == 20
FRAME_SIZE == 960
\* In the units of the audio engine's model: volumes in tenths, the voice
\* threshold in ten-thousandths of full scale, times in milliseconds.
DEFAULT_VOICE_THRESHOLD == 100
DEFAULT_HOLD_TIME_MS == 500
DEFAULT_MIC_VOLUME == 12
IncomingPacketsMaxSize == 128

VARIABLES
    state_,            \* std::atomic<ConnectionState>
    serverUrl_,
    currentMatchId_,
    localSteamId_,
    localPlayerName_,
    peers_,            \* unordered_map steamId -> PeerInfo
    autoReconnect_,
    bytesSent_,
    bytesReceived_,
    lastError_,
    audioReceivedCb_,  \* TRUE when a callback is registered
    peerJoinedCb_,
    peerLeftCb_,
    stateChangedCb_,
    webSocket_,        \* the ix::WebSocket member
    lastCall,          \* the operation or transport event handled last
    sent,              \* messages it handed to the transport, in order
    fired,             \* callbacks it invoked, in order
    link,              \* the far end of the link: the session the client's join
                       \* and leave messages on this link have put it in
    parseCall,         \* the last call of parseIncomingAudioPacket on its own
    queue,             \* a ThreadSafeQueue<int>: queue_, maxSize_, dropped_
    pushed,            \* number of push calls so far; the k-th pushes item k
    popped,            \* the items the pops returned, in the order returned
    consumer,          \* the last pop: its result, and a popWait in progress
    audioEngine_,      \* the AudioEngine object: its data members
    captureLog,        \* what the capture callbacks did: per-frame decisions
    playbackLog,       \* what the last playback callback did, step by step
    now,               \* std::chrono::steady_clock::now(), in milliseconds
    pose,              \* setListenerState and the read of the listener pose, in progress
    inCall,            \* per thread, the relay-client call it is inside and what it accesses
    spatial,           \* a SpatialAudio object and its last process() call
    callback,          \* where the playback thread is inside a callback taken step by step
    drainedFrom        \* the senders drained, and those decoded, since the last shutdown

\* The relay client with its transport.
netVars == << state_, serverUrl_, currentMatchId_, localSteamId_, localPlayerName_,
           peers_, autoReconnect_, bytesSent_, bytesReceived_, lastError_,
           audioReceivedCb_, peerJoinedCb_, peerLeftCb_, stateChangedCb_,
           webSocket_, lastCall, sent, fired, link >>

\* What belongs to the other components.
queueVars == << queue, pushed, popped, consumer >>

engineVars == << audioEngine_, captureLog, playbackLog, now, pose >>

otherVars == << parseCall, queueVars, engineVars, inCall, spatial, callback, drainedFrom >>

vars == << netVars, otherVars >>

ConnectionState == {"Disconnected", "Connecting", "Connected", "Reconnecting", "Error"}

\* An empty unordered_map.
NoPeers == [s \in {} |-> [steamId |-> "", playerName |-> ""]]

\* ------------------------------------------------------------ input domains
ServerUrls == {"ws://relay"}
MatchIds == {"", "m1"}
PlayerNames == {"me"}
LocalSteamIds == {"", "1", "256"}
CloseReasons == {"bye"}
ErrorReasons == {"refused", "timeout"}
OutgoingPackets == { <<>>, <<3>>, <<3, 7>> }

\* =================================================================== values
\* A default-constructed Protocol::AudioPacket.
EmptyPacket ==
    [senderSteamId |-> "", senderPosition |-> [x |-> <<>>, y |-> <<>>, z |-> <<>>],
     opusData |-> <<>>]

\* What is handed to the transport by send / sendBinary.
TextOut(type, matchId, playerName, steamId) ==
    [kind |-> "text", type |-> type, matchId |-> matchId,
     playerName |-> playerName, steamId |-> steamId, data |-> <<>>]

BinaryOut(data) ==
    [kind |-> "binary", type |-> "", matchId |-> "",
     playerName |-> "", steamId |-> "", data |-> data]

\* A callback invocation with its arguments.
StateChangedCall(state, info) ==
    [cb |-> "stateChanged", state |-> state, info |-> info,
     steamId |-> "", name |-> "", packet |-> EmptyPacket]

PeerJoinedCall(sid, name) ==
    [cb |-> "peerJoined", state |-> "", info |-> "",
     steamId |-> sid, name |-> name, packet |-> EmptyPacket]

PeerLeftCall(sid, name) ==
    [cb |-> "peerLeft", state |-> "", info |-> "",
     steamId |-> sid, name |-> name, packet |-> EmptyPacket]

AudioReceivedCall(packet) ==
    [cb |-> "audioReceived", state |-> "", info |-> "",
     steamId |-> "", name |-> "", packet |-> packet]

\* ===================================================== Protocol.h helpers
DigitChar == << "0", "1", "2", "3", "4", "5", "6", "7", "8", "9" >>

\* std::to_string of an unsigned integer: decimal, no leading zeros.
RECURSIVE to_string(_)
to_string(n) ==
    IF n < 10 THEN DigitChar[n + 1]
    ELSE to_string(n \div 10) \o DigitChar[(n % 10) + 1]

\* memcpy of little-endian bytes into an unsigned integer.
RECURSIVE LittleEndian(_)
LittleEndian(bytes) ==
    IF bytes = <<>> THEN 0
    ELSE Head(bytes) + 256 * LittleEndian(Tail(bytes))

\* parseIncomingAudioPacket without the type-byte test.
parseIncomingAudioPacket_NoTypeCheck(data, len, out) ==
    IF len < INCOMING_HEADER_SIZE THEN [ok |-> FALSE, out |-> out]
    ELSE LET steamIdNum == LittleEndian(SubSeq(data, 2, 9))
             opusLen == len - INCOMING_HEADER_SIZE
         IN  [ok |-> TRUE,
              out |-> [senderSteamId |-> to_string(steamIdNum),
                       senderPosition |-> [x |-> SubSeq(data, 10, 13),
                                           y |-> SubSeq(data, 14, 17),
                                           z |-> SubSeq(data, 18, 21)],
                       opusData |-> IF opusLen > 0
                                    THEN SubSeq(data, INCOMING_HEADER_SIZE + 1, len)
                                    ELSE out.opusData]]

\* out is the caller's packet object: the fields the function does not
\* assign keep what the caller left in them.
parseIncomingAudioPacket(data, len, out) ==
    IF len < INCOMING_HEADER_SIZE THEN [ok |-> FALSE, out |-> out]
    ELSE IF data[1] # MSG_AUDIO THEN [ok |-> FALSE, out |-> out]
    ELSE LET steamIdNum == LittleEndian(SubSeq(data, 2, 9))
             opusLen == len - INCOMING_HEADER_SIZE
         IN  [ok |-> TRUE,
              out |-> [senderSteamId |-> to_string(steamIdNum),
                       senderPosition |-> [x |-> SubSeq(data, 10, 13),
                                           y |-> SubSeq(data, 14, 17),
                                           z |-> SubSeq(data, 18, 21)],
                       opusData |-> IF opusLen > 0
                                    THEN SubSeq(data, INCOMING_HEADER_SIZE + 1, len)
                                    ELSE out.opusData]]

\* ========================================================= ThreadSafeQueue.h
\* The constructor with its default capacity, and with a given one.
DefaultMaxSize == 256

ThreadSafeQueue(maxSize) == [queue_ |-> <<>>, maxSize_ |-> maxSize, dropped_ |-> 0]

\* Each member function runs under mutex_, so it is one step.  A pop returns
\* the queue and std::optional<T> as has/item.
\* push appending without dropping the oldest.
push_NoDrop(q, item) == [q EXCEPT !.queue_ = Append(@, item)]

push(q, item) ==
    LET q1 == IF Len(q.queue_) >= q.maxSize_
              THEN [q EXCEPT !.queue_ = Tail(@), !.dropped_ = @ + 1]
              ELSE q
    IN  [q1 EXCEPT !.queue_ = Append(@, item)]

\* tryPop taking the newest item.
tryPop_Newest(q) ==
    IF q.queue_ = <<>> THEN [q |-> q, has |-> FALSE, item |-> 0]
    ELSE [q |-> [q EXCEPT !.queue_ = SubSeq(@, 1, Len(@) - 1)],
          has |-> TRUE, item |-> q.queue_[Len(q.queue_)]]

tryPop(q) ==
    IF q.queue_ = <<>> THEN [q |-> q, has |-> FALSE, item |-> 0]
    ELSE [q |-> [q EXCEPT !.queue_ = Tail(@)], has |-> TRUE, item |-> Head(q.queue_)]

\* popWait once cv_.wait_for has returned: with the predicate true it takes
\* the front, with the predicate false (timed out on an empty queue) nothing.
popWait(q) ==
    IF q.queue_ # <<>>
    THEN [q |-> [q EXCEPT !.queue_ = Tail(@)], has |-> TRUE, item |-> Head(q.queue_)]
    ELSE [q |-> q, has |-> FALSE, item |-> 0]

clear(q) == [q EXCEPT !.queue_ = <<>>]

size(q) == Len(q.queue_)

droppedCount(q) == q.dropped_

\* ============================================================ nlohmann::json
\* A parsed JSON value carries its kind; only the kinds the handler tells
\* apart are modelled.
JString(x) == [t |-> "string", s |-> x]
JNumber(x) == [t |-> "number", n |-> x]
JArray(x) == [t |-> "array", a |-> x]
JObject(x) == [t |-> "object", f |-> x]

\* The received text: not JSON at all, or the value it parses to.
Unparseable == [ok |-> FALSE, json |-> JNumber(0)]
Parsed(j) == [ok |-> TRUE, json |-> j]

contains(j, key) == j.t = "object" /\ key \in DOMAIN j.f

is_array(j) == j.t = "array"

\* basic_json::value(key, default) for a string default: throws type_error on
\* a non-object and on a member that is not a string.
value(j, key, default) ==
    IF j.t # "object" THEN [thrown |-> TRUE, v |-> ""]
    ELSE IF key \notin DOMAIN j.f THEN [thrown |-> FALSE, v |-> default]
    ELSE IF j.f[key].t # "string" THEN [thrown |-> TRUE, v |-> ""]
    ELSE [thrown |-> FALSE, v |-> j.f[key].s]

\* e.what() of the two json::exception classes that can reach the handler.
ParseErrorWhat == "parse_error"
TypeErrorWhat == "type_error"

\* ----------------------------------------------------- inbound message inputs
\* Roster entries as the relay lists them, and entries it should not send.
Peer(sid, name) == JObject([steamId |-> JString(sid), playerName |-> JString(name)])
PeerNoName(sid) == JObject([steamId |-> JString(sid)])
PeerNoId(name) == JObject([playerName |-> JString(name)])
PeerBadId(name) == JObject([steamId |-> JNumber(7), playerName |-> JString(name)])
PeerBadName(sid) == JObject([steamId |-> JString(sid), playerName |-> JNumber(7)])

\* A control message: an object with a type and the members of entry.
Control(type, entry) ==
    Parsed(JObject([k \in {"type"} \cup DOMAIN entry.f |->
                        IF k = "type" THEN JString(type) ELSE entry.f[k]]))

Welcome(list) == Parsed(JObject([type |-> JString("welcome"), peers |-> JArray(list)]))

\* The lists of the welcome messages received.
WelcomeLists ==
    << <<>>,
       << Peer("1", "bob") >>,
       << Peer("1", "bob"), PeerNoName("2") >>,
       << Peer("", "bob"), Peer("2", "bob") >>,
       << PeerNoId("bob"), Peer("1", "amy") >>,
       << Peer("2", "bob"), Peer("2", "amy") >>,
       << JNumber(5), Peer("1", "bob") >>,
       << Peer("2", "amy"), PeerBadId("bob"), Peer("1", "bob") >>,
       << PeerBadName("2"), Peer("1", "amy") >> >>

\* The entries of the peer_joined and peer_left messages received.
JoinedEntries ==
    << Peer("1", "bob"), Peer("1", "amy"), Peer("2", "amy"), PeerNoName("2"),
       Peer("", "bob"), PeerNoId("bob"), PeerBadId("bob"), PeerBadName("1") >>

LeftEntries ==
    << PeerNoName("1"), PeerNoName("2"), PeerNoName(""), JObject([other |-> JNumber(0)]),
       PeerBadId("bob") >>

OtherTexts ==
    << Unparseable,
       Parsed(JArray(<<>>)),
       Parsed(JObject([type |-> JNumber(1)])),
       Parsed(JObject([other |-> JString("x")])),
       Parsed(JObject([type |-> JString("bogus")])),
       Parsed(JObject([type |-> JString("pong")])),
       Parsed(JObject([type |-> JString("peer_position"), steamId |-> JString("1")])),
       Parsed(JObject([type |-> JString("welcome")])),
       Parsed(JObject([type |-> JString("welcome"), peers |-> JString("1")])),
       Parsed(JObject([type |-> JString("error"), message |-> JString("room full")])),
       Parsed(JObject([type |-> JString("error")])),
       Parsed(JObject([type |-> JString("error"), message |-> JNumber(1)])) >>

TextInputs ==
    [i \in 1..Len(WelcomeLists) |-> Welcome(WelcomeLists[i])]
    \o [i \in 1..Len(JoinedEntries) |-> Control("peer_joined", JoinedEntries[i])]
    \o [i \in 1..Len(LeftEntries) |-> Control("peer_left", LeftEntries[i])]
    \o OtherTexts

\* Audio messages: the 8 little-endian bytes of a sender id, a 12-byte
\* position (1.0f, 2.0f, 3.0f) and the compressed payload.
IdBytes(n) == << n % 256, (n \div 256) % 256, 0, 0, 0, 0, 0, 0 >>
PosBytes == << 0, 0, 128, 63,  0, 0, 0, 64,  0, 0, 64, 64 >>
AudioMessage(type, n, opus) == <<type>> \o IdBytes(n) \o PosBytes \o opus

\* Sender ids with the decimal text of each.
AudioSenders == << [n |-> 1, id |-> "1"], [n |-> 2, id |-> "2"], [n |-> 256, id |-> "256"] >>
Payloads == { <<>>, <<9>>, <<9, 8>> }

WellFormedAudio ==
    { AudioMessage(MSG_AUDIO, AudioSenders[k].n, opus) :
        k \in 1..Len(AudioSenders), opus \in Payloads }

MalformedAudio ==
    { <<>>,
      << MSG_AUDIO >>,
      SubSeq(AudioMessage(MSG_AUDIO, 1, <<>>), 1, INCOMING_HEADER_SIZE - 1),
      AudioMessage(0, 1, <<>>),
      AudioMessage(2, 1, <<9>>) }

BinaryInputs == WellFormedAudio \cup MalformedAudio

\* ============================================================ the transport
\* ix::WebSocket as the client uses it: configuration, a background thread
\* (running) and a link (open), with what the far end of the link has been
\* told.
wsSend(o, m) ==
    [o EXCEPT !.sent = Append(@, m),
              !.link = IF m.kind = "text" /\ m.type = "join" THEN m.matchId
                       ELSE IF m.kind = "text" /\ m.type = "leave" THEN ""
                       ELSE @]

wsStart(o) == [o EXCEPT !.webSocket_.running = TRUE]

wsStop(o) ==
    [o EXCEPT !.webSocket_.running = FALSE, !.webSocket_.open = FALSE,
              !.link = ""]

\* What the transport's thread does to its own object around an event: the
\* link comes up, the link is lost, a connection attempt fails.  After a loss
\* or a failure the thread goes on retrying only with automatic reconnection.
wsLinkUp(o) == [o EXCEPT !.webSocket_.open = TRUE, !.link = ""]

wsLinkDown(o) ==
    [o EXCEPT !.webSocket_.open = FALSE,
              !.webSocket_.running = o.webSocket_.automaticReconnection]

wsAttemptFailed(o) ==
    [o EXCEPT !.webSocket_.running = o.webSocket_.automaticReconnection]

\* ========================================================== NetworkManager
This ==
    [state_ |-> state_, serverUrl_ |-> serverUrl_,
     currentMatchId_ |-> currentMatchId_, localSteamId_ |-> localSteamId_,
     localPlayerName_ |-> localPlayerName_, peers_ |-> peers_,
     autoReconnect_ |-> autoReconnect_, bytesSent_ |-> bytesSent_,
     bytesReceived_ |-> bytesReceived_, lastError_ |-> lastError_,
     audioReceivedCb_ |-> audioReceivedCb_, peerJoinedCb_ |-> peerJoinedCb_,
     peerLeftCb_ |-> peerLeftCb_, stateChangedCb_ |-> stateChangedCb_,
     webSocket_ |-> webSocket_, sent |-> <<>>, fired |-> <<>>, link |-> link]

setState(o, state, info) ==
    [o EXCEPT !.state_ = state,
              !.fired = IF o.stateChangedCb_
                        THEN Append(@, StateChangedCall(state, info))
                        ELSE @]

setError(o, err) == [o EXCEPT !.lastError_ = err]

\* leaveRoom returning early when there is no room to leave on a live link.
leaveRoom_EarlyReturn(o) ==
    IF o.state_ = "Connected" /\ o.currentMatchId_ # ""
    THEN [wsSend(o, TextOut("leave", "", "", "")) EXCEPT !.currentMatchId_ = "",
                                                         !.peers_ = NoPeers]
    ELSE o

leaveRoom(o) ==
    LET o1 == IF o.state_ = "Connected" /\ o.currentMatchId_ # ""
              THEN wsSend(o, TextOut("leave", "", "", ""))
              ELSE o
    IN  [o1 EXCEPT !.currentMatchId_ = "", !.peers_ = NoPeers]

\* disconnect without webSocket_.stop().
disconnect_NoStop(o) ==
    LET o1 == leaveRoom(o)
        o3 == setState(o1, "Disconnected", "")
    IN  [o3 EXCEPT !.peers_ = NoPeers, !.currentMatchId_ = "", !.localSteamId_ = ""]

\* disconnect without localSteamId_.clear().
disconnect_KeepsIdentity(o) ==
    LET o1 == leaveRoom(o)
        o2 == wsStop(o1)
        o3 == setState(o2, "Disconnected", "")
    IN  [o3 EXCEPT !.peers_ = NoPeers, !.currentMatchId_ = ""]

disconnect(o) ==
    LET o1 == leaveRoom(o)
        o2 == wsStop(o1)
        o3 == setState(o2, "Disconnected", "")
    IN  [o3 EXCEPT !.peers_ = NoPeers, !.currentMatchId_ = "", !.localSteamId_ = ""]

connect(o, serverUrl) ==
    LET o1 == IF o.state_ = "Connected" \/ o.state_ = "Connecting"
              THEN disconnect(o)
              ELSE o
        o2 == [o1 EXCEPT !.serverUrl_ = serverUrl]
        o3 == setState(o2, "Connecting", "Connecting to " \o serverUrl)
        o4 == [o3 EXCEPT !.webSocket_.url = serverUrl,
                         !.webSocket_.automaticReconnection = o3.autoReconnect_]
    IN  wsStart(o4)

\* joinRoom without the state check.
joinRoom_NoGuard(o, matchId, playerName, steamId) ==
    wsSend([o EXCEPT !.currentMatchId_ = matchId,
                     !.localPlayerName_ = playerName,
                     !.localSteamId_ = steamId],
           TextOut("join", matchId, playerName, steamId))

joinRoom(o, matchId, playerName, steamId) ==
    IF o.state_ # "Connected" THEN o
    ELSE wsSend([o EXCEPT !.currentMatchId_ = matchId,
                          !.localPlayerName_ = playerName,
                          !.localSteamId_ = steamId],
                TextOut("join", matchId, playerName, steamId))

\* sendAudioPacket checking the state only.
sendAudioPacket_NoRoomCheck(o, packet) ==
    IF o.state_ # "Connected" THEN o
    ELSE [wsSend(o, BinaryOut(packet)) EXCEPT !.bytesSent_ = @ + Len(packet)]

sendAudioPacket(o, packet) ==
    IF o.state_ # "Connected" \/ o.currentMatchId_ = "" THEN o
    ELSE [wsSend(o, BinaryOut(packet)) EXCEPT !.bytesSent_ = @ + Len(packet)]

setAutoReconnect(o, enabled) == [o EXCEPT !.autoReconnect_ = enabled]

\* std::unordered_map operator[] assignment and erase.
MapPut(m, key, val) ==
    [k \in DOMAIN m \cup {key} |-> IF k = key THEN val ELSE m[k]]

MapErase(m, key) == [k \in DOMAIN m \ {key} |-> m[k]]

\* The welcome loop without the empty-identity test.
RECURSIVE welcomePeers_NoEmptyCheck(_, _, _)
welcomePeers_NoEmptyCheck(o, list, i) ==
    IF i > Len(list) THEN [o |-> o, thrown |-> FALSE]
    ELSE LET sid == value(list[i], "steamId", "")
             name == value(list[i], "playerName", "Unknown")
         IN  IF sid.thrown \/ name.thrown THEN [o |-> o, thrown |-> TRUE]
             ELSE welcomePeers_NoEmptyCheck(
                    [o EXCEPT !.peers_ = MapPut(@, sid.v, [steamId |-> sid.v,
                                                           playerName |-> name.v]),
                              !.fired = IF o.peerJoinedCb_
                                        THEN Append(@, PeerJoinedCall(sid.v, name.v))
                                        ELSE @],
                    list, i + 1)

\* The welcome loop over msg["peers"] from element i on; thrown when an
\* element makes value() throw, with the entries stored before it kept.
RECURSIVE welcomePeers(_, _, _)
welcomePeers(o, list, i) ==
    IF i > Len(list) THEN [o |-> o, thrown |-> FALSE]
    ELSE LET sid == value(list[i], "steamId", "")
             name == value(list[i], "playerName", "Unknown")
         IN  IF sid.thrown \/ name.thrown THEN [o |-> o, thrown |-> TRUE]
             ELSE IF sid.v # ""
             THEN welcomePeers(
                    [o EXCEPT !.peers_ = MapPut(@, sid.v, [steamId |-> sid.v,
                                                           playerName |-> name.v]),
                              !.fired = IF o.peerJoinedCb_
                                        THEN Append(@, PeerJoinedCall(sid.v, name.v))
                                        ELSE @],
                    list, i + 1)
             ELSE welcomePeers(o, list, i + 1)

\* handleTextMessage treating an unknown type as a failure.
handleTextMessage_UnknownFatal(o, text) ==
    IF ~text.ok THEN setError(o, "JSON parse error: " \o ParseErrorWhat)
    ELSE
    LET msg == text.json
        type == value(msg, "type", "")
        caught(x) == setError(x, "JSON parse error: " \o TypeErrorWhat)
    IN  IF type.thrown THEN caught(o)
        ELSE IF type.v = "welcome" THEN
            IF contains(msg, "peers") /\ is_array(msg.f["peers"])
            THEN LET r == welcomePeers(o, msg.f["peers"].a, 1)
                 IN  IF r.thrown THEN caught(r.o) ELSE r.o
            ELSE o
        ELSE IF type.v = "peer_joined" THEN
            LET sid == value(msg, "steamId", "")
                name == value(msg, "playerName", "Unknown")
            IN  IF sid.thrown \/ name.thrown THEN caught(o)
                ELSE IF sid.v # ""
                THEN [o EXCEPT !.peers_ = MapPut(@, sid.v, [steamId |-> sid.v,
                                                            playerName |-> name.v]),
                               !.fired = IF o.peerJoinedCb_
                                         THEN Append(@, PeerJoinedCall(sid.v, name.v))
                                         ELSE @]
                ELSE o
        ELSE IF type.v = "peer_left" THEN
            LET sid == value(msg, "steamId", "")
            IN  IF sid.thrown THEN caught(o)
                ELSE LET found == sid.v \in DOMAIN o.peers_
                         name == IF found THEN o.peers_[sid.v].playerName ELSE ""
                     IN  [o EXCEPT !.peers_ = IF found THEN MapErase(@, sid.v) ELSE @,
                                   !.fired = IF o.peerLeftCb_
                                             THEN Append(@, PeerLeftCall(sid.v, name))
                                             ELSE @]
        ELSE IF type.v = "peer_position" THEN o
        ELSE IF type.v = "error" THEN
            LET errMsg == value(msg, "message", "Unknown error")
            IN  IF errMsg.thrown THEN caught(o)
                ELSE setError(o, "Server: " \o errMsg.v)
        ELSE setState(setError(o, "Unknown message type"), "Error", "Unknown message type")

handleTextMessage(o, text) ==
    IF ~text.ok THEN setError(o, "JSON parse error: " \o ParseErrorWhat)
    ELSE
    LET msg == text.json
        type == value(msg, "type", "")
        caught(x) == setError(x, "JSON parse error: " \o TypeErrorWhat)
    IN  IF type.thrown THEN caught(o)
        ELSE IF type.v = "welcome" THEN
            IF contains(msg, "peers") /\ is_array(msg.f["peers"])
            THEN LET r == welcomePeers(o, msg.f["peers"].a, 1)
                 IN  IF r.thrown THEN caught(r.o) ELSE r.o
            ELSE o
        ELSE IF type.v = "peer_joined" THEN
            LET sid == value(msg, "steamId", "")
                name == value(msg, "playerName", "Unknown")
            IN  IF sid.thrown \/ name.thrown THEN caught(o)
                ELSE IF sid.v # ""
                THEN [o EXCEPT !.peers_ = MapPut(@, sid.v, [steamId |-> sid.v,
                                                            playerName |-> name.v]),
                               !.fired = IF o.peerJoinedCb_
                                         THEN Append(@, PeerJoinedCall(sid.v, name.v))
                                         ELSE @]
                ELSE o
        ELSE IF type.v = "peer_left" THEN
            LET sid == value(msg, "steamId", "")
            IN  IF sid.thrown THEN caught(o)
                ELSE LET found == sid.v \in DOMAIN o.peers_
                         name == IF found THEN o.peers_[sid.v].playerName ELSE ""
                     IN  [o EXCEPT !.peers_ = IF found THEN MapErase(@, sid.v) ELSE @,
                                   !.fired = IF o.peerLeftCb_
                                             THEN Append(@, PeerLeftCall(sid.v, name))
                                             ELSE @]
        ELSE IF type.v = "peer_position" THEN o
        ELSE IF type.v = "error" THEN
            LET errMsg == value(msg, "message", "Unknown error")
            IN  IF errMsg.thrown THEN caught(o)
                ELSE setError(o, "Server: " \o errMsg.v)
        ELSE o

\* handleBinaryMessage without the echo filter.
handleBinaryMessage_NoSelfFilter(o, data) ==
    LET o1 == [o EXCEPT !.bytesReceived_ = @ + Len(data)]
        r == parseIncomingAudioPacket(data, Len(data), EmptyPacket)
    IN  IF r.ok /\ o1.audioReceivedCb_
        THEN [o1 EXCEPT !.fired = Append(@, AudioReceivedCall(r.out))]
        ELSE o1

handleBinaryMessage(o, data) ==
    LET o1 == [o EXCEPT !.bytesReceived_ = @ + Len(data)]
        r == parseIncomingAudioPacket(data, Len(data), EmptyPacket)
    IN  IF r.ok /\ r.out.senderSteamId # o1.localSteamId_ /\ o1.audioReceivedCb_
        THEN [o1 EXCEPT !.fired = Append(@, AudioReceivedCall(r.out))]
        ELSE o1

\* The Open arm confirming a first connection only.
onOpen_OnlyFromConnecting(o) ==
    IF o.state_ = "Connecting"
    THEN setState(o, "Connected", "Connected to " \o o.serverUrl_)
    ELSE o

\* The Close arm without peers_.clear().
onClose_KeepsRoster(o, msg) ==
    setState(o, IF o.autoReconnect_ THEN "Reconnecting" ELSE "Disconnected",
             "Connection closed: " \o msg.closeReason)

\* The Close arm going to Reconnecting whatever autoReconnect_ says.
onClose_AlwaysReconnecting(o, msg) ==
    LET o1 == setState(o, "Reconnecting", "Connection closed: " \o msg.closeReason)
    IN  [o1 EXCEPT !.peers_ = NoPeers]

\* The Error arm without setError.
onError_NoRecord(o, msg) == setState(o, "Error", msg.errorReason)

\* The arms of the switch in onMessage.
onOpen(o) == setState(o, "Connected", "Connected to " \o o.serverUrl_)

onClose(o, msg) ==
    LET o1 == setState(o, IF o.autoReconnect_ THEN "Reconnecting" ELSE "Disconnected",
                       "Connection closed: " \o msg.closeReason)
    IN  [o1 EXCEPT !.peers_ = NoPeers]

onError(o, msg) ==
    setState(setError(o, msg.errorReason), "Error", msg.errorReason)

\* msg: [type, closeReason, errorReason, binary, str]
onMessage(o, msg) ==
    IF msg.type = "Open" THEN onOpen(o)
    ELSE IF msg.type = "Close" THEN onClose(o, msg)
    ELSE IF msg.type = "Error" THEN onError(o, msg)
    ELSE IF msg.type = "Message"
    THEN IF msg.binary THEN handleBinaryMessage(o, msg.str)
         ELSE handleTextMessage(o, msg.str)
    ELSE o   \* Ping, Pong, Fragment

WebSocketMessage(type, closeReason, errorReason, binary, str) ==
    [type |-> type, closeReason |-> closeReason, errorReason |-> errorReason,
     binary |-> binary, str |-> str]

\* ========================================================== SpatialAudio
\* Distances and radii are counted in units of the default full-volume
\* distance; volumes in fiftieths, so that the audibility floor 0.04 is 2.
DEFAULT_FULL_VOL_DISTANCE == 2500
DEFAULT_MAX_DISTANCE == 15000
DistanceUnit == DEFAULT_FULL_VOL_DISTANCE
VolumeScale == 50
VolumeFloor == (4 * VolumeScale) \div 100

\* Rolloff is counted in tenths: 1.0f is 10, the lower clamp 0.1f is 1.
DEFAULT_ROLLOFF_FACTOR == 10

NewSpatialAudio ==
    [ enabled_ |-> TRUE,
      innerRadius_ |-> DEFAULT_FULL_VOL_DISTANCE \div DistanceUnit,
      outerRadius_ |-> DEFAULT_MAX_DISTANCE \div DistanceUnit,
      rolloff_ |-> DEFAULT_ROLLOFF_FACTOR,
      masterVolume_ |-> VolumeScale ]

NoProcess == [called |-> FALSE, dist |-> 0, volume |-> 0, written |-> FALSE]

Max(a, b) == IF a >= b THEN a ELSE b

setDistanceParams(s, inner, outer, rolloff) ==
    [s EXCEPT !.innerRadius_ = inner, !.outerRadius_ = outer,
              !.rolloff_ = Max(rolloff, 1)]

setEnabled(s, enabled) == [s EXCEPT !.enabled_ = enabled]

\* std::pow(num / den, 0.6f) for 0 <= num <= den, in VolumeScale units rounded
\* down: the largest k with (k / VolumeScale)^5 <= (num / den)^3.  The
\* quotient is taken in two parts to stay within 32 bits.
Pow06(num, den) ==
    LET X == VolumeScale * VolumeScale * VolumeScale * VolumeScale * VolumeScale
        N == num * num * num
        D == den * den * den
        bound == (X \div D) * N + ((X % D) * N) \div D
    IN  CHOOSE k \in 0..VolumeScale :
            /\ k * k * k * k * k <= bound
            /\ k < VolumeScale => (k + 1) * (k + 1) * (k + 1) * (k + 1) * (k + 1) > bound

\* Section 2 of process(), with `distUU >= outerRadius_` made `>`.
distVolume_OuterExclusive(s, distUU) ==
    IF distUU <= s.innerRadius_ THEN VolumeScale
    ELSE IF distUU > s.outerRadius_ THEN 0
    ELSE Max(VolumeScale - Pow06(distUU - s.innerRadius_,
                                 s.outerRadius_ - s.innerRadius_), VolumeFloor)

\* Section 2 of process(): the distance attenuation.  rolloff_ is not read.
distVolume(s, distUU) ==
    IF distUU <= s.innerRadius_ THEN VolumeScale
    ELSE IF distUU >= s.outerRadius_ THEN 0
    ELSE Max(VolumeScale - Pow06(distUU - s.innerRadius_,
                                 s.outerRadius_ - s.innerRadius_), VolumeFloor)

\* process(): the volume it returns and whether the per-sample loop wrote the
\* stereo output after the memset that zeroes it.  distUU is delta.length().
process(s, distUU) ==
    IF ~s.enabled_
    THEN [called |-> TRUE, dist |-> distUU, volume |-> s.masterVolume_, written |-> TRUE]
    ELSE LET v == distVolume(s, distUU)
         IN  IF v <= 0
             THEN [called |-> TRUE, dist |-> distUU, volume |-> 0, written |-> FALSE]
             ELSE [called |-> TRUE, dist |-> distUU, volume |-> v, written |-> TRUE]

\* ============================================================== AudioEngine
\* Samples are held as runs of equal values, << [v |-> value, n |-> count] >>;
\* a sample value is the captured amplitude times the mic volume.
RECURSIVE SumSquares(_)
SumSquares(samples) ==
    IF samples = <<>> THEN 0
    ELSE Head(samples).n * Head(samples).v * Head(samples).v + SumSquares(Tail(samples))

RECURSIVE SampleCount(_)
SampleCount(samples) ==
    IF samples = <<>> THEN 0 ELSE Head(samples).n + SampleCount(Tail(samples))

\* n samples of value v written after those already stored.
StoreSamples(samples, v, n) ==
    IF n = 0 THEN samples
    ELSE IF samples # <<>> /\ samples[Len(samples)].v = v
    THEN [samples EXCEPT ![Len(samples)].n = @ + n]
    ELSE Append(samples, [v |-> v, n |-> n])

Min(a, b) == IF a < b THEN a ELSE b

Clamp(x, lo, hi) == IF x < lo THEN lo ELSE IF x > hi THEN hi ELSE x

ZeroVec3 == << 0, 0, 0, 0,  0, 0, 0, 0,  0, 0, 0, 0 >>

\* The engine after the constructor and a successful initialize(), with the
\* packet-ready callback the plugin registers.
NewAudioEngine ==
    [initialized_ |-> TRUE, streaming_ |-> FALSE,
     captureStream_ |-> FALSE, playbackStream_ |-> FALSE,
     captureAccumBuffer_ |-> <<>>, captureAccumPos_ |-> 0,
     pushToTalk_ |-> FALSE, pttActive_ |-> FALSE,
     voiceThreshold_ |-> DEFAULT_VOICE_THRESHOLD,
     holdTimeMs_ |-> DEFAULT_HOLD_TIME_MS,
     micVolume_ |-> DEFAULT_MIC_VOLUME,
     micMuted_ |-> FALSE, isSpeaking_ |-> FALSE,
     currentInputLevel_ |-> 0,       \* kept squared: FRAME_SIZE * rms^2
     holdFramesRemaining_ |-> 0,
     listenerPos_ |-> [x |-> 0, y |-> 0, z |-> 0],
     listenerYaw_ |-> 0,
     spatialAudio_ |-> NewSpatialAudio,
     localPosition_ |-> ZeroVec3,
     packetReadyCb_ |-> TRUE,
     peersMutex_ |-> FALSE,          \* TRUE while a lock_guard holds it
     peers_ |-> [id \in {} |-> 0],
     incomingPackets_ |-> ThreadSafeQueue(IncomingPacketsMaxSize)]

setPushToTalk(e, enabled) == [e EXCEPT !.pushToTalk_ = enabled]

setPTTActive(e, active) == [e EXCEPT !.pttActive_ = active]

setVoiceThreshold(e, threshold) == [e EXCEPT !.voiceThreshold_ = Clamp(threshold, 0, 10000)]

setHoldTimeMs(e, ms) == [e EXCEPT !.holdTimeMs_ = IF ms < 0 THEN 0 ELSE ms]

setMicMuted(e, muted) == [e EXCEPT !.micMuted_ = muted]

\* captureOk, playbackOk: whether the device exists and PortAudio opened and
\* started the stream.
startStreams(e, captureOk, playbackOk) ==
    IF ~e.initialized_ \/ e.streaming_ THEN e
    ELSE [e EXCEPT !.captureStream_ = captureOk,
                   !.playbackStream_ = playbackOk,
                   !.streaming_ = captureOk \/ playbackOk]

\* ok: Pa_Initialize and the codec's initialize both succeeded.
initialize(e, ok) ==
    IF e.initialized_ THEN e ELSE [e EXCEPT !.initialized_ = ok]

stopStreams(e) ==
    [e EXCEPT !.captureStream_ = FALSE, !.playbackStream_ = FALSE,
              !.streaming_ = FALSE,
              !.captureAccumPos_ = 0, !.captureAccumBuffer_ = <<>>,
              !.holdFramesRemaining_ = 0,
              !.isSpeaking_ = FALSE]

\* shutdown without peers_.clear().
shutdown_KeepsPeers(e) == [stopStreams(e) EXCEPT !.initialized_ = FALSE]

shutdown(e) ==
    [stopStreams(e) EXCEPT !.peers_ = [id \in {} |-> 0], !.initialized_ = FALSE]

\* detectVoiceActivity holding one frame too long.
detectVoiceActivity_HoldsOneMore(e, samples, count) ==
    LET threshold == e.voiceThreshold_
        voiceDetected == SumSquares(samples) > threshold * threshold * count
    IN  IF voiceDetected
        THEN [e |-> [e EXCEPT !.holdFramesRemaining_ =
                                  e.holdTimeMs_ \div FRAME_DURATION_MS],
              ret |-> TRUE]
        ELSE IF e.holdFramesRemaining_ >= 0
        THEN [e |-> [e EXCEPT !.holdFramesRemaining_ = @ - 1], ret |-> TRUE]
        ELSE [e |-> e, ret |-> FALSE]

\* rms > threshold, on the squares: sum / count > threshold^2.
detectVoiceActivity(e, samples, count) ==
    LET threshold == e.voiceThreshold_
        voiceDetected == SumSquares(samples) > threshold * threshold * count
    IN  IF voiceDetected
        THEN [e |-> [e EXCEPT !.holdFramesRemaining_ =
                                  e.holdTimeMs_ \div FRAME_DURATION_MS],
              ret |-> TRUE]
        ELSE IF e.holdFramesRemaining_ > 0
        THEN [e |-> [e EXCEPT !.holdFramesRemaining_ = @ - 1], ret |-> TRUE]
        ELSE [e |-> e, ret |-> FALSE]

\* VoiceCodec::encode wraps the Opus encoder: produced tells whether it gave
\* more than the two bytes of a DTX frame.
EncodedFrame == << 120, 1, 2 >>

encode(produced) == IF produced THEN EncodedFrame ELSE <<>>

setPacketReadyCallback(e, cb) == [e EXCEPT !.packetReadyCb_ = cb]

buildOutgoingAudioPacket(pos, opusData, opusLen) ==
    << MSG_AUDIO >> \o pos \o SubSeq(opusData, 1, opusLen)

\* A frame the encoder gave nothing for leaving is-speaking false.
processFrame_QuietOnEmpty(e, produced) ==
    LET e1 == [e EXCEPT !.captureAccumPos_ = 0,
                        !.currentInputLevel_ = SumSquares(e.captureAccumBuffer_)]
        vad == detectVoiceActivity(e1, e1.captureAccumBuffer_, FRAME_SIZE)
        shouldTransmit == IF e1.pushToTalk_ THEN e1.pttActive_ ELSE vad.ret
        e2 == IF e1.pushToTalk_ THEN e1 ELSE vad.e
        encoded == IF shouldTransmit /\ e2.packetReadyCb_ THEN encode(produced) ELSE <<>>
        e3 == [e2 EXCEPT !.isSpeaking_ = shouldTransmit /\ encoded # <<>>]
    IN  [e |-> [e3 EXCEPT !.captureAccumBuffer_ = <<>>],
         frame |-> [samples |-> SampleCount(e.captureAccumBuffer_),
                    above |-> SumSquares(e.captureAccumBuffer_)
                                > e.voiceThreshold_ * e.voiceThreshold_ * FRAME_SIZE,
                    pushToTalk |-> e.pushToTalk_,
                    pttActive |-> e.pttActive_,
                    holdTimeMs |-> e.holdTimeMs_,
                    transmit |-> shouldTransmit,
                    registered |-> e3.packetReadyCb_,
                    encoded |-> encoded # <<>>,
                    before |-> e,
                    after |-> [e3 EXCEPT !.captureAccumBuffer_ = <<>>],
                    packet |-> IF encoded # <<>>
                               THEN buildOutgoingAudioPacket(e3.localPosition_,
                                                             encoded, Len(encoded))
                               ELSE <<>>]]

\* A frame in push-to-talk mode transmitted on the key or on voice activity.
processFrame_KeyOrVoice(e, produced) ==
    LET e1 == [e EXCEPT !.captureAccumPos_ = 0,
                        !.currentInputLevel_ = SumSquares(e.captureAccumBuffer_)]
        vad == detectVoiceActivity(e1, e1.captureAccumBuffer_, FRAME_SIZE)
        shouldTransmit == IF e1.pushToTalk_ THEN e1.pttActive_ \/ vad.ret ELSE vad.ret
        e2 == IF e1.pushToTalk_ THEN e1 ELSE vad.e
        e3 == [e2 EXCEPT !.isSpeaking_ = shouldTransmit]
        encoded == IF shouldTransmit /\ e3.packetReadyCb_ THEN encode(produced) ELSE <<>>
    IN  [e |-> [e3 EXCEPT !.captureAccumBuffer_ = <<>>],
         frame |-> [samples |-> SampleCount(e.captureAccumBuffer_),
                    above |-> SumSquares(e.captureAccumBuffer_)
                                > e.voiceThreshold_ * e.voiceThreshold_ * FRAME_SIZE,
                    pushToTalk |-> e.pushToTalk_,
                    pttActive |-> e.pttActive_,
                    holdTimeMs |-> e.holdTimeMs_,
                    transmit |-> shouldTransmit,
                    registered |-> e3.packetReadyCb_,
                    encoded |-> encoded # <<>>,
                    before |-> e,
                    after |-> [e3 EXCEPT !.captureAccumBuffer_ = <<>>],
                    packet |-> IF encoded # <<>>
                               THEN buildOutgoingAudioPacket(e3.localPosition_,
                                                             encoded, Len(encoded))
                               ELSE <<>>]]

\* The body of `if (captureAccumPos_ >= FRAME_SIZE)`: one full frame.
\* Returns the engine and what was done with the frame (above: its RMS
\* exceeded the threshold).
processFrame(e, produced) ==
    LET e1 == [e EXCEPT !.captureAccumPos_ = 0,
                        !.currentInputLevel_ = SumSquares(e.captureAccumBuffer_)]
        vad == detectVoiceActivity(e1, e1.captureAccumBuffer_, FRAME_SIZE)
        shouldTransmit == IF e1.pushToTalk_ THEN e1.pttActive_ ELSE vad.ret
        e2 == IF e1.pushToTalk_ THEN e1 ELSE vad.e
        e3 == [e2 EXCEPT !.isSpeaking_ = shouldTransmit]
        encoded == IF shouldTransmit /\ e3.packetReadyCb_ THEN encode(produced) ELSE <<>>
    IN  [e |-> [e3 EXCEPT !.captureAccumBuffer_ = <<>>],
         frame |-> [samples |-> SampleCount(e.captureAccumBuffer_),
                    above |-> SumSquares(e.captureAccumBuffer_)
                                > e.voiceThreshold_ * e.voiceThreshold_ * FRAME_SIZE,
                    pushToTalk |-> e.pushToTalk_,
                    pttActive |-> e.pttActive_,
                    holdTimeMs |-> e.holdTimeMs_,
                    transmit |-> shouldTransmit,
                    registered |-> e3.packetReadyCb_,
                    encoded |-> encoded # <<>>,
                    before |-> e,
                    after |-> [e3 EXCEPT !.captureAccumBuffer_ = <<>>],
                    packet |-> IF encoded # <<>>
                               THEN buildOutgoingAudioPacket(e3.localPosition_,
                                                             encoded, Len(encoded))
                               ELSE <<>>]]

\* The sample loop of processCapturedAudio, taken a run at a time: the
\* samples up to the end of the frame are stored, a full frame is processed,
\* and the loop goes on with the samples left.  produced[k]: the encoder's
\* answer for the k-th frame completed by this call.
RECURSIVE captureLoop(_, _, _, _)
captureLoop(e, input, produced, frames) ==
    IF input = <<>> THEN [e |-> e, frames |-> frames]
    ELSE LET micVol == e.micVolume_
             run == Head(input)
             take == Min(run.n, FRAME_SIZE - e.captureAccumPos_)
             rest == IF take = run.n THEN Tail(input)
                     ELSE << [v |-> run.v, n |-> run.n - take] >> \o Tail(input)
             e1 == [e EXCEPT !.captureAccumBuffer_ = StoreSamples(@, run.v * micVol, take),
                             !.captureAccumPos_ = @ + take]
         IN  IF e1.captureAccumPos_ >= FRAME_SIZE
             THEN LET r == processFrame(e1, produced[Len(frames) + 1])
                  IN  captureLoop(r.e, rest, produced, Append(frames, r.frame))
             ELSE captureLoop(e1, rest, produced, frames)

\* processCapturedAudio starting every callback with an empty accumulator.
processCapturedAudio_DropsLeftover(e, input, frameCount, produced) ==
    IF e.micMuted_
    THEN [e |-> [e EXCEPT !.isSpeaking_ = FALSE, !.currentInputLevel_ = 0],
          frames |-> <<>>]
    ELSE captureLoop([e EXCEPT !.captureAccumPos_ = 0, !.captureAccumBuffer_ = <<>>],
                     input, produced, <<>>)

\* processCapturedAudio treating a muted callback as stopStreams treats the
\* capture state.
processCapturedAudio_MuteResets(e, input, frameCount, produced) ==
    IF e.micMuted_
    THEN [e |-> [e EXCEPT !.isSpeaking_ = FALSE, !.currentInputLevel_ = 0,
                          !.captureAccumPos_ = 0, !.captureAccumBuffer_ = <<>>,
                          !.holdFramesRemaining_ = 0],
          frames |-> <<>>]
    ELSE captureLoop(e, input, produced, <<>>)

processCapturedAudio(e, input, frameCount, produced) ==
    IF e.micMuted_
    THEN [e |-> [e EXCEPT !.isSpeaking_ = FALSE, !.currentInputLevel_ = 0],
          frames |-> <<>>]
    ELSE captureLoop(e, input, produced, <<>>)

\* ---------------------------------------------------------- playback side
feedIncomingPacket(e, packet) == [e EXCEPT !.incomingPackets_ = push(@, packet)]

\* The first n of the samples, and the samples after the first n.
RECURSIVE TakeSamples(_, _)
TakeSamples(samples, n) ==
    IF n = 0 \/ samples = <<>> THEN <<>>
    ELSE IF Head(samples).n <= n
    THEN << Head(samples) >> \o TakeSamples(Tail(samples), n - Head(samples).n)
    ELSE << [Head(samples) EXCEPT !.n = n] >>

RECURSIVE DropSamples(_, _)
DropSamples(samples, n) ==
    IF n = 0 \/ samples = <<>> THEN samples
    ELSE IF Head(samples).n <= n
    THEN DropSamples(Tail(samples), n - Head(samples).n)
    ELSE << [Head(samples) EXCEPT !.n = @ - n] >> \o Tail(samples)

\* The capacity PeerAudioState's constructor gives to init() of the jitter
\* buffer.
JitterCapacity == (SAMPLE_RATE * CHANNELS_STEREO) \div 2

PREBUFFER_FRAMES == 3
PREBUFFER_STEREO_SAMPLES == PREBUFFER_FRAMES * FRAME_SIZE * CHANNELS_STEREO

\* A PeerAudioState as getOrCreatePeerState leaves it; jitterBuffer holds
\* the stereo samples buffered, oldest first, as runs of samples that come
\* from equal payloads.
NewPeerAudioState(t) ==
    [lastPosition |-> EmptyPacket.senderPosition, lastPacketTime |-> t,
     plcFrames |-> 0, active |-> FALSE, prebuffering |-> TRUE, jitterBuffer |-> <<>>,
     spatial |-> NewSpatialAudio]

\* The outer radius given to a peer's spatializer while spatialization is off.
PassThroughMaxDistance == 100000

\* The settings every drained packet's spatializer is given before process().
configurePeerSpatial(e, s) ==
    LET on == e.spatialAudio_.enabled_
    IN  setEnabled(setDistanceParams(s,
                       IF on THEN DEFAULT_FULL_VOL_DISTANCE \div DistanceUnit ELSE 0,
                       IF on THEN DEFAULT_MAX_DISTANCE \div DistanceUnit
                             ELSE PassThroughMaxDistance \div DistanceUnit,
                       DEFAULT_ROLLOFF_FACTOR),
                   on)

\* One step of a playback callback: what it does, the peer it touches and
\* whether the peer-table mutex is held at that point.
PlaybackStep(e, op, id) == [op |-> op, id |-> id, held |-> e.peersMutex_]

\* Nobody drained yet, and the senders a callback's log adds.
NobodyDrained == [ids |-> {}, decoded |-> {}]

DrainedAfter(seen, log) ==
    [ids |-> seen.ids \cup { log.drained[k].id : k \in 1..Len(log.drained) },
     decoded |-> seen.decoded
                 \cup { log.drained[k].id :
                          k \in { j \in 1..Len(log.drained) : log.drained[j].samples > 0 } }]

\* The record when the last step was not a playback callback.
NoPlayback == [ran |-> FALSE, queued |-> 0, steps |-> <<>>, drained |-> <<>>, mixed |-> <<>>]

\* The lock_guard of getOrCreatePeerState covers the lookup and the insert;
\* the reference it returns is used after the guard is gone.
getOrCreatePeerState(e, steamId, t) ==
    LET locked == [e EXCEPT !.peersMutex_ = TRUE]
        found == IF steamId \in DOMAIN locked.peers_ THEN locked
                 ELSE [locked EXCEPT !.peers_ =
                          [id \in DOMAIN locked.peers_ \cup {steamId} |->
                              IF id \in DOMAIN locked.peers_ THEN locked.peers_[id]
                              ELSE NewPeerAudioState(t)]]
    IN  [e |-> [found EXCEPT !.peersMutex_ = FALSE],
         step |-> PlaybackStep(locked, "lookup", steamId)]

\* VoiceCodec::decode as the loop sees it: FRAME_SIZE samples that come from
\* the payload, or none.
decode(opusData, ok) ==
    IF ok THEN [n |-> FRAME_SIZE, v |-> Head(opusData)] ELSE [n |-> 0, v |-> 0]

\* The loop over the pending packets; decoded[k] tells whether the decoder
\* returned samples for the k-th packet.
RECURSIVE drainIncoming(_, _, _, _, _)
drainIncoming(e, log, t, decoded, k) ==
    LET r == tryPop(e.incomingPackets_)
    IN  IF ~r.has THEN [e |-> e, log |-> log]
        ELSE LET pkt == r.item
                 sid == pkt.senderSteamId
                 e0 == [e EXCEPT !.incomingPackets_ = r.q]
                 g == getOrCreatePeerState(e0, sid, t)
                 e1 == g.e
                 pcm == IF pkt.opusData # <<>> THEN decode(pkt.opusData, decoded[k])
                        ELSE [n |-> 0, v |-> 0]
                 e2 == IF pcm.n > 0
                       THEN [e1 EXCEPT !.peers_[sid] =
                                [@ EXCEPT !.lastPosition = pkt.senderPosition,
                                          !.lastPacketTime = t,
                                          !.plcFrames = 0,
                                          !.active = TRUE,
                                          !.spatial = configurePeerSpatial(e1, @),
                                          !.jitterBuffer =
                                              StoreSamples(@, pcm.v, pcm.n * 2)]]
                       ELSE e1
                 steps == << PlaybackStep(e0, "pop", sid), g.step >>
                          \o (IF pkt.opusData # <<>>
                              THEN << PlaybackStep(e1, "decode", sid) >> ELSE <<>>)
                          \o (IF pcm.n > 0
                              THEN << PlaybackStep(e1, "update", sid) >> ELSE <<>>)
                 note == [id |-> sid, opusData |-> pkt.opusData, samples |-> pcm.n,
                          existed |-> sid \in DOMAIN e.peers_,
                          heardBefore |-> /\ sid \in DOMAIN e.peers_
                                          /\ e.peers_[sid].lastPosition
                                                 # EmptyPacket.senderPosition,
                          activeBefore |-> sid \in DOMAIN e.peers_ /\ e.peers_[sid].active,
                          bufferedBefore |-> IF sid \in DOMAIN e.peers_
                                             THEN e.peers_[sid].jitterBuffer ELSE <<>>,
                          bufferedAfter |-> e2.peers_[sid].jitterBuffer,
                          plcFramesBefore |-> e1.peers_[sid].plcFrames,
                          plcFramesAfter |-> e2.peers_[sid].plcFrames,
                          activeAfter |-> e2.peers_[sid].active]
             IN  drainIncoming(e2,
                               [log EXCEPT !.steps = @ \o steps,
                                           !.drained = Append(@, note)],
                               t, decoded, k + 1)

\* mixPeer erasing the whole buffer after a read.
mixPeer_ErasesAll(peer, t, stereoFrameCount, plcOk) ==
    LET available == SampleCount(peer.jitterBuffer)
        toRead == Min(available, stereoFrameCount)
        elapsed == t - peer.lastPacketTime
        quiet == [real |-> <<>>, concealed |-> FALSE]
    IN  IF ~peer.active THEN [peer |-> peer, out |-> quiet]
        ELSE IF toRead > 0
        THEN [peer |-> [peer EXCEPT !.jitterBuffer = <<>>],
              out |-> [real |-> TakeSamples(peer.jitterBuffer, toRead),
                       concealed |-> FALSE]]
        ELSE IF elapsed < 500 /\ peer.plcFrames < 10
        THEN IF plcOk
             THEN [peer |-> [peer EXCEPT !.plcFrames = @ + 1],
                   out |-> [real |-> <<>>, concealed |-> TRUE]]
             ELSE [peer |-> peer, out |-> quiet]
        ELSE IF elapsed > 2000
        THEN [peer |-> [peer EXCEPT !.active = FALSE], out |-> quiet]
        ELSE [peer |-> peer, out |-> quiet]

\* mixPeer concealing without the cap on consecutive frames.
mixPeer_NoPlcCap(peer, t, stereoFrameCount, plcOk) ==
    LET available == SampleCount(peer.jitterBuffer)
        toRead == Min(available, stereoFrameCount)
        elapsed == t - peer.lastPacketTime
        quiet == [real |-> <<>>, concealed |-> FALSE]
    IN  IF ~peer.active THEN [peer |-> peer, out |-> quiet]
        ELSE IF toRead > 0
        THEN [peer |-> [peer EXCEPT !.jitterBuffer = DropSamples(@, toRead)],
              out |-> [real |-> TakeSamples(peer.jitterBuffer, toRead),
                       concealed |-> FALSE]]
        ELSE IF elapsed < 500
        THEN IF plcOk
             THEN [peer |-> [peer EXCEPT !.plcFrames = @ + 1],
                   out |-> [real |-> <<>>, concealed |-> TRUE]]
             ELSE [peer |-> peer, out |-> quiet]
        ELSE IF elapsed > 2000
        THEN [peer |-> [peer EXCEPT !.active = FALSE], out |-> quiet]
        ELSE [peer |-> peer, out |-> quiet]

\* mixPeer without the silence timeout.
mixPeer_NoTimeout(peer, t, stereoFrameCount, plcOk) ==
    LET available == SampleCount(peer.jitterBuffer)
        toRead == Min(available, stereoFrameCount)
        elapsed == t - peer.lastPacketTime
        quiet == [real |-> <<>>, concealed |-> FALSE]
    IN  IF ~peer.active THEN [peer |-> peer, out |-> quiet]
        ELSE IF toRead > 0
        THEN [peer |-> [peer EXCEPT !.jitterBuffer = DropSamples(@, toRead)],
              out |-> [real |-> TakeSamples(peer.jitterBuffer, toRead),
                       concealed |-> FALSE]]
        ELSE IF elapsed < 500 /\ peer.plcFrames < 10
        THEN IF plcOk
             THEN [peer |-> [peer EXCEPT !.plcFrames = @ + 1],
                   out |-> [real |-> <<>>, concealed |-> TRUE]]
             ELSE [peer |-> peer, out |-> quiet]
        ELSE [peer |-> peer, out |-> quiet]

\* One peer in the mixing loop; plcOk tells whether concealment returned
\* samples.  real is what the peer's jitter buffer added to the output and
\* concealed tells whether a concealment frame was added.
mixPeer(peer, t, stereoFrameCount, plcOk) ==
    LET available == SampleCount(peer.jitterBuffer)
        toRead == Min(available, stereoFrameCount)
        elapsed == t - peer.lastPacketTime
        quiet == [real |-> <<>>, concealed |-> FALSE]
    IN  IF ~peer.active THEN [peer |-> peer, out |-> quiet]
        ELSE IF toRead > 0
        THEN [peer |-> [peer EXCEPT !.jitterBuffer = DropSamples(@, toRead)],
              out |-> [real |-> TakeSamples(peer.jitterBuffer, toRead),
                       concealed |-> FALSE]]
        ELSE IF elapsed < 500 /\ peer.plcFrames < 10
        THEN IF plcOk
             THEN [peer |-> [peer EXCEPT !.plcFrames = @ + 1],
                   out |-> [real |-> <<>>, concealed |-> TRUE]]
             ELSE [peer |-> peer, out |-> quiet]
        ELSE IF elapsed > 2000
        THEN [peer |-> [peer EXCEPT !.active = FALSE], out |-> quiet]
        ELSE [peer |-> peer, out |-> quiet]

\* The mixing loop over the peer table, under the lock_guard taken before it.
RECURSIVE mixPeers(_, _, _, _, _, _)
mixPeers(e, log, ids, t, stereoFrameCount, plc) ==
    IF ids = {} THEN [e |-> e, log |-> log]
    ELSE LET id == CHOOSE x \in ids : TRUE
             before == e.peers_[id]
             m == mixPeer(before, t, stereoFrameCount, id \in plc)
             note == [id |-> id, activeBefore |-> before.active,
                      buffered |-> before.jitterBuffer,
                      elapsed |-> t - before.lastPacketTime,
                      plcFramesBefore |-> before.plcFrames,
                      requested |-> stereoFrameCount,
                      real |-> m.out.real, concealed |-> m.out.concealed,
                      left |-> m.peer.jitterBuffer,
                      plcFramesAfter |-> m.peer.plcFrames,
                      activeAfter |-> m.peer.active]
         IN  mixPeers([e EXCEPT !.peers_[id] = m.peer],
                      [log EXCEPT !.steps = Append(@, PlaybackStep(e, "mix", id)),
                                  !.mixed = Append(@, note)],
                      ids \ {id}, t, stereoFrameCount, plc)

\* One turn of the loop over the pending packets: the front packet only.
drainOne(e, t, ok) ==
    LET q == e.incomingPackets_.queue_
        front == [e EXCEPT !.incomingPackets_.queue_ = << Head(q) >>]
        d == drainIncoming(front, NoPlayback, t, << ok >>, 1)
    IN  [d.e EXCEPT !.incomingPackets_.queue_ = Tail(q)]

\* The callback with the mix loop placed before the drain loop.
processPlaybackAudio_MixFirst(e, frameCount, t, decoded, plc) ==
    LET start == [NoPlayback EXCEPT !.ran = TRUE,
                                    !.queued = Len(e.incomingPackets_.queue_)]
        locked == [e EXCEPT !.peersMutex_ = TRUE]
        m == mixPeers(locked, start, DOMAIN locked.peers_, t, frameCount * 2, plc)
        d == drainIncoming([m.e EXCEPT !.peersMutex_ = FALSE], m.log, t, decoded, 1)
    IN  [e |-> d.e,
         log |-> [d.log EXCEPT !.steps = Append(@, PlaybackStep(d.e, "saturate", ""))]]

\* The callback's work: the pending packets, the mix, the soft saturation.
processPlaybackAudio(e, frameCount, t, decoded, plc) ==
    LET start == [NoPlayback EXCEPT !.ran = TRUE,
                                    !.queued = Len(e.incomingPackets_.queue_)]
        d == drainIncoming(e, start, t, decoded, 1)
        locked == [d.e EXCEPT !.peersMutex_ = TRUE]
        m == mixPeers(locked, d.log, DOMAIN locked.peers_, t, frameCount * 2, plc)
    IN  [e |-> [m.e EXCEPT !.peersMutex_ = FALSE],
         log |-> [m.log EXCEPT !.steps = Append(@, PlaybackStep(m.e, "saturate", ""))]]

\* ------------------------------------------------------------- the plugin
\* The callbacks initSubsystems registers with the relay client, run on the
\* calls it made: received audio is fed to the engine, the others write to
\* the log.
RECURSIVE deliverCallbacks(_, _)
deliverCallbacks(e, calls) ==
    IF calls = <<>> THEN e
    ELSE deliverCallbacks(IF Head(calls).cb = "audioReceived"
                          THEN feedIncomingPacket(e, Head(calls).packet)
                          ELSE e,
                          Tail(calls))

\* ============================================================ the plugin
\* The packet-ready callback LeoProximityChat registers: a packet goes to the
\* relay client while it is connected.
RECURSIVE packetsReady(_, _)
packetsReady(o, frames) ==
    IF frames = <<>> THEN o
    ELSE LET packet == Head(frames).packet
             o1 == IF packet # <<>> /\ o.state_ = "Connected"
                   THEN sendAudioPacket(o, packet)
                   ELSE o
         IN  packetsReady(o1, Tail(frames))

\* The fields after the call become the next state.
ReturnNet(o, call) ==
    /\ state_' = o.state_
    /\ serverUrl_' = o.serverUrl_
    /\ currentMatchId_' = o.currentMatchId_
    /\ localSteamId_' = o.localSteamId_
    /\ localPlayerName_' = o.localPlayerName_
    /\ peers_' = o.peers_
    /\ autoReconnect_' = o.autoReconnect_
    /\ bytesSent_' = o.bytesSent_
    /\ bytesReceived_' = o.bytesReceived_
    /\ lastError_' = o.lastError_
    /\ audioReceivedCb_' = o.audioReceivedCb_
    /\ peerJoinedCb_' = o.peerJoinedCb_
    /\ peerLeftCb_' = o.peerLeftCb_
    /\ stateChangedCb_' = o.stateChangedCb_
    /\ webSocket_' = o.webSocket_
    /\ sent' = o.sent
    /\ fired' = o.fired
    /\ link' = o.link
    /\ lastCall' = call

\* A call of the relay client, with the plugin's callbacks it ran.
ReturnCall(o, call) ==
    /\ ReturnNet(o, call)
    /\ audioEngine_' = deliverCallbacks(audioEngine_, o.fired)
    /\ playbackLog' = NoPlayback
    /\ UNCHANGED << parseCall, queueVars, captureLog, now, pose >>

\* The same, the call taken as one step.
Return(o, call) == ReturnCall(o, call) /\ UNCHANGED << inCall, spatial, callback, drainedFrom >>

\* ------------------------------------------------- threads inside a call
\* The threads that call the relay client: the game thread (joinRoom,
\* leaveRoom, disconnect), the capture thread (sendAudioPacket through the
\* packet-ready callback) and the transport's thread (onMessage).
Threads == {"game", "capture", "network"}

NoCall == [op |-> "", arg |-> <<>>, accesses |-> {}]

\* A read or a write of a data member, with the mutexes held when it is made.
Read(field, held) == [field |-> field, write |-> FALSE, held |-> held]
Write(field, held) == [field |-> field, write |-> TRUE, held |-> held]

\* The members that are neither atomic nor const which a call reads and
\* writes, from its code; none of them is accessed inside a lock_guard.
sendAudioPacketAccesses(o) ==
    IF o.state_ = "Connected" THEN { Read("currentMatchId_", {}) } ELSE {}

joinRoomAccesses(o) ==
    IF o.state_ # "Connected" THEN {}
    ELSE { Write("currentMatchId_", {}), Write("localPlayerName_", {}),
           Write("localSteamId_", {}) }

leaveRoomAccesses(o) ==
    (IF o.state_ = "Connected" THEN { Read("currentMatchId_", {}) } ELSE {})
    \cup { Write("currentMatchId_", {}), Write("peers_", {"peersMutex_"}) }

disconnectAccesses(o) ==
    leaveRoomAccesses(o)
    \cup { Write("peers_", {"peersMutex_"}), Write("currentMatchId_", {}),
           Write("localSteamId_", {}) }

handleBinaryMessageAccesses(o, data) ==
    IF parseIncomingAudioPacket(data, Len(data), EmptyPacket).ok
    THEN { Read("localSteamId_", {}) } ELSE {}

\* An invocation of a registered callback, with the mutexes held when it is
\* made.
Invoke(cb, held) == [field |-> cb, write |-> FALSE, held |-> held]

RosterCallbacks == {"peerJoined", "peerLeft"}

\* The roster callbacks handleTextMessage invokes for a message: the welcome
\* arm calls peerJoinedCb_ inside the scope of its lock_guard, the
\* peer_joined and peer_left arms after the scope has closed.
handleTextMessageCallbacks(o, text) ==
    LET msgFired == handleTextMessage([o EXCEPT !.fired = <<>>], text).fired
        type == IF text.ok THEN value(text.json, "type", "") ELSE [thrown |-> TRUE, v |-> ""]
        held == IF ~type.thrown /\ type.v = "welcome" THEN {"peersMutex_"} ELSE {}
    IN  { Invoke(msgFired[k].cb, held) :
            k \in { j \in 1..Len(msgFired) : msgFired[j].cb \in RosterCallbacks } }

\* ================================================================== actions
\* The objects after construction; maxSize is the capacity given to the queue
\* under test.
Constructed(maxSize) ==
    /\ state_ = "Disconnected"
    /\ serverUrl_ = ""
    /\ currentMatchId_ = ""
    /\ localSteamId_ = ""
    /\ localPlayerName_ = ""
    /\ peers_ = NoPeers
    /\ autoReconnect_ = TRUE
    /\ bytesSent_ = 0
    /\ bytesReceived_ = 0
    /\ lastError_ = ""
    /\ audioReceivedCb_ = TRUE
    /\ peerJoinedCb_ = TRUE
    /\ peerLeftCb_ = TRUE
    /\ stateChangedCb_ = TRUE
    /\ webSocket_ = [url |-> "", automaticReconnection |-> TRUE,
                     running |-> FALSE, open |-> FALSE]
    /\ lastCall = "constructor"
    /\ sent = <<>>
    /\ fired = <<>>
    /\ link = ""
    /\ parseCall = [data |-> <<>>, before |-> EmptyPacket, out |-> EmptyPacket,
                    ok |-> FALSE, called |-> FALSE]
    /\ queue = ThreadSafeQueue(maxSize)
    /\ pushed = 0
    /\ popped = <<>>
    /\ consumer = [call |-> "none", has |-> FALSE, item |-> 0, waiting |-> FALSE]
    /\ audioEngine_ = NewAudioEngine
    /\ captureLog = [frames |-> <<>>, samples |-> 0, processed |-> 0,
                     voiced |-> FALSE, quietRun |-> 0, holdMsAtVoice |-> 0]
    /\ playbackLog = NoPlayback
    /\ now = 0
    /\ pose = [writer |-> [pc |-> "idle", pos |-> [x |-> 0, y |-> 0, z |-> 0], yaw |-> 0],
               reader |-> [pc |-> "idle", lPos |-> [x |-> 0, y |-> 0, z |-> 0]],
               given |-> { [pos |-> [x |-> 0, y |-> 0, z |-> 0], yaw |-> 0] },
               used |-> [pos |-> [x |-> 0, y |-> 0, z |-> 0], yaw |-> 0]]
    /\ inCall = [t \in Threads |-> NoCall]
    /\ spatial = [obj |-> NewSpatialAudio, last |-> NoProcess]
    /\ callback = [pc |-> "idle"]
    /\ drainedFrom = NobodyDrained

Init == Constructed(DefaultMaxSize)

ConnectTo(url) == Return(connect(This, url), "connect")

Connect == \E url \in ServerUrls : ConnectTo(url)

Disconnect == Return(disconnect(This), "disconnect")

JoinRoomAs(m, n, s) == Return(joinRoom(This, m, n, s), "joinRoom")

JoinRoom == \E m \in MatchIds, n \in PlayerNames, s \in LocalSteamIds : JoinRoomAs(m, n, s)

LeaveRoom == Return(leaveRoom(This), "leaveRoom")

SendPacket(p) == Return(sendAudioPacket(This, p), "sendAudioPacket")

SendAudioPacket ==
    \E p \in OutgoingPackets :
        /\ bytesSent_ + Len(p) <= MaxBytesSent
        /\ SendPacket(p)

SetAutoReconnect ==
    \E b \in BOOLEAN : Return(setAutoReconnect(This, b), "setAutoReconnect")

\* ---------------------------------------------------------- transport events
\* Delivered by the transport's thread through the message callback.
OnOpen ==
    /\ webSocket_.running /\ ~webSocket_.open
    /\ Return(onMessage(wsLinkUp(This), WebSocketMessage("Open", "", "", FALSE, <<>>)),
              "Open")

OnClose ==
    /\ webSocket_.running /\ webSocket_.open
    /\ \E r \in CloseReasons :
          Return(onMessage(wsLinkDown(This),
                           WebSocketMessage("Close", r, "", FALSE, <<>>)), "Close")

OnError ==
    /\ webSocket_.running /\ ~webSocket_.open
    /\ \E r \in ErrorReasons :
          Return(onMessage(wsAttemptFailed(This),
                           WebSocketMessage("Error", "", r, FALSE, <<>>)), "Error")

OnText(text) ==
    /\ webSocket_.running /\ webSocket_.open
    /\ Return(onMessage(This, WebSocketMessage("Message", "", "", FALSE, text)), "Text")

OnTextMessage(inputs) == \E i \in 1..Len(inputs) : OnText(inputs[i])

OnBinary(data) ==
    /\ webSocket_.running /\ webSocket_.open
    /\ Return(onMessage(This, WebSocketMessage("Message", "", "", TRUE, data)), "Binary")

OnBinaryMessage(inputs) ==
    \E data \in inputs :
        /\ bytesReceived_ + Len(data) <= MaxBytesReceived
        /\ OnBinary(data)

OnControlFrame ==
    /\ webSocket_.running /\ webSocket_.open
    /\ \E t \in {"Ping", "Pong", "Fragment"} :
          Return(onMessage(This, WebSocketMessage(t, "", "", FALSE, <<>>)), "Control")

\* ---------------------------------------------------------- the playback side
\* Audio from two participants.
PipelineAudio ==
    { AudioMessage(MSG_AUDIO, n, opus) : n \in {1, 2}, opus \in { <<>>, <<9>> } }

OnPipelineAudio == OnBinaryMessage(PipelineAudio)

\* The most packets that can wait in the engine's queue.
MaxDrained == MaxBytesReceived \div INCOMING_HEADER_SIZE

\* playbackCallback: PortAudio asks for one frame of output.
PlaybackCallback ==
    /\ audioEngine_.playbackStream_
    /\ \E decoded \in [1..MaxDrained -> BOOLEAN],
          plc \in SUBSET { id \in DOMAIN audioEngine_.peers_ :
                              audioEngine_.peers_[id].plcFrames < MaxPlcFrames } :
          LET r == processPlaybackAudio(audioEngine_, FRAME_SIZE, now, decoded, plc)
          IN  /\ audioEngine_' = r.e /\ playbackLog' = r.log
              /\ drainedFrom' = DrainedAfter(drainedFrom, r.log)
    /\ UNCHANGED << netVars, parseCall, queueVars, captureLog, now, pose, inCall, spatial, callback >>

\* The same with concealment free to succeed as often as the engine asks.
PlaybackConcealing ==
    /\ audioEngine_.playbackStream_
    /\ \E decoded \in [1..MaxDrained -> BOOLEAN],
          plc \in SUBSET DOMAIN audioEngine_.peers_ :
          LET r == processPlaybackAudio(audioEngine_, FRAME_SIZE, now, decoded, plc)
          IN  /\ audioEngine_' = r.e /\ playbackLog' = r.log
              /\ drainedFrom' = DrainedAfter(drainedFrom, r.log)
    /\ UNCHANGED << netVars, parseCall, queueVars, captureLog, now, pose, inCall, spatial, callback >>

\* A burst of audio from one participant, and a playback callback whose
\* decoder accepts all of it or none of it.
OnBurstAudio ==
    /\ bytesReceived_ + INCOMING_HEADER_SIZE + 1 <= MaxBurstBytes
    /\ OnBinary(AudioMessage(MSG_AUDIO, 1, <<9>>))

PlaybackBurst ==
    /\ audioEngine_.playbackStream_
    /\ \E ok \in BOOLEAN :
          LET decoded == [k \in 1..Len(audioEngine_.incomingPackets_.queue_) |-> ok]
              r == processPlaybackAudio(audioEngine_, FRAME_SIZE, now, decoded, {})
          IN  /\ audioEngine_' = r.e /\ playbackLog' = r.log
              /\ drainedFrom' = DrainedAfter(drainedFrom, r.log)
    /\ UNCHANGED << netVars, parseCall, queueVars, captureLog, now, pose, inCall, spatial, callback >>

\* Two kinds of audio from one participant, and playback callbacks asking
\* for less than a frame, a frame, or more.
OnReadAudio ==
    OnBinaryMessage({ AudioMessage(MSG_AUDIO, 1, <<8>>), AudioMessage(MSG_AUDIO, 1, <<9>>) })

PlaybackSizes == {480, FRAME_SIZE, 1440}

PlaybackSized ==
    /\ audioEngine_.playbackStream_
    /\ \E frameCount \in PlaybackSizes, decoded \in [1..MaxDrained -> BOOLEAN],
          plc \in SUBSET { id \in DOMAIN audioEngine_.peers_ :
                              audioEngine_.peers_[id].plcFrames < MaxPlcFrames } :
          LET r == processPlaybackAudio(audioEngine_, frameCount, now, decoded, plc)
          IN  /\ audioEngine_' = r.e /\ playbackLog' = r.log
              /\ drainedFrom' = DrainedAfter(drainedFrom, r.log)
    /\ UNCHANGED << netVars, parseCall, queueVars, captureLog, now, pose, inCall, spatial, callback >>

\* Audio from one participant.
OnAudioFromOne == OnBinaryMessage({ AudioMessage(MSG_AUDIO, 1, <<9>>) })

\* A quarter of a second passes.
ShortTick ==
    /\ now + 250 <= MaxNow /\ now' = now + 250
    /\ playbackLog' = NoPlayback
    /\ UNCHANGED << netVars, parseCall, queueVars, audioEngine_, captureLog, pose, inCall, spatial, callback, drainedFrom >>

\* Time passes.
Ticks == {1000, 2001}

Tick ==
    /\ \E d \in Ticks : now + d <= MaxNow /\ now' = now + d
    /\ playbackLog' = NoPlayback
    /\ UNCHANGED << netVars, parseCall, queueVars, audioEngine_, captureLog, pose, inCall, spatial, callback, drainedFrom >>

\* ------------------------------------------------------- the listener pose
\* setListenerState on the game thread and the two reads of the pose on the
\* playback thread.  listenerPos_ is a plain struct of three floats, written
\* and read one member at a time with no lock; listenerYaw_ is atomic.
Poses ==
    { [pos |-> [x |-> 1, y |-> 1, z |-> 1], yaw |-> 90],
      [pos |-> [x |-> 2, y |-> 2, z |-> 2], yaw |-> 180] }

PoseFrame == UNCHANGED << netVars, parseCall, queueVars, captureLog, playbackLog, now, inCall, spatial, callback, drainedFrom >>

\* listenerPos_ = pos begins: x is stored.
SetListenerStateBegin ==
    /\ pose.writer.pc = "idle"
    /\ \E p \in Poses :
          /\ audioEngine_' = [audioEngine_ EXCEPT !.listenerPos_.x = p.pos.x]
          /\ pose' = [pose EXCEPT !.writer = [pc |-> "y", pos |-> p.pos, yaw |-> p.yaw],
                                  !.given = @ \cup {p}]
    /\ PoseFrame

\* The next store of setListenerState: y, z, then listenerYaw_ = yaw.
SetListenerStateNext ==
    /\ pose.writer.pc # "idle"
    /\ LET w == pose.writer
       IN  CASE w.pc = "y" ->
                  /\ audioEngine_' = [audioEngine_ EXCEPT !.listenerPos_.y = w.pos.y]
                  /\ pose' = [pose EXCEPT !.writer.pc = "z"]
             [] w.pc = "z" ->
                  /\ audioEngine_' = [audioEngine_ EXCEPT !.listenerPos_.z = w.pos.z]
                  /\ pose' = [pose EXCEPT !.writer.pc = "yaw"]
             [] w.pc = "yaw" ->
                  /\ audioEngine_' = [audioEngine_ EXCEPT !.listenerYaw_ = w.yaw]
                  /\ pose' = [pose EXCEPT !.writer.pc = "idle"]
    /\ PoseFrame

\* Protocol::Vec3 lPos = listenerPos_ begins: x is loaded.
ReadListenerBegin ==
    /\ pose.reader.pc = "idle"
    /\ pose' = [pose EXCEPT !.reader = [pc |-> "y",
                                        lPos |-> [@.lPos EXCEPT !.x = audioEngine_.listenerPos_.x]]]
    /\ UNCHANGED audioEngine_
    /\ PoseFrame

\* The next load: y, z, then lYaw = listenerYaw_.load(), after which the
\* frame is spatialized with lPos and lYaw.
ReadListenerNext ==
    /\ pose.reader.pc # "idle"
    /\ LET r == pose.reader
       IN  CASE r.pc = "y" ->
                  pose' = [pose EXCEPT !.reader = [pc |-> "z",
                              lPos |-> [r.lPos EXCEPT !.y = audioEngine_.listenerPos_.y]]]
             [] r.pc = "z" ->
                  pose' = [pose EXCEPT !.reader = [pc |-> "yaw",
                              lPos |-> [r.lPos EXCEPT !.z = audioEngine_.listenerPos_.z]]]
             [] r.pc = "yaw" ->
                  pose' = [pose EXCEPT !.reader.pc = "idle",
                                       !.used = [pos |-> r.lPos,
                                                 yaw |-> audioEngine_.listenerYaw_]]
    /\ UNCHANGED audioEngine_
    /\ PoseFrame

\* ------------------------------------------------------- the parser by itself
\* parseIncomingAudioPacket called on a buffer with a packet object that is
\* either fresh or the one the previous call filled.
ParseInto(data, out) ==
    LET r == parseIncomingAudioPacket(data, Len(data), out)
    IN  /\ parseCall' = [data |-> data, before |-> out, out |-> r.out,
                         ok |-> r.ok, called |-> TRUE]
        /\ UNCHANGED << netVars, queueVars, engineVars, inCall, spatial, callback, drainedFrom >>

ParseFresh == \E data \in BinaryInputs : ParseInto(data, EmptyPacket)

ParseReused == \E data \in BinaryInputs : ParseInto(data, parseCall.out)

\* -------------------------------------------------------- the queue by itself
\* A queue of small capacity with producer and consumer threads: any thread
\* may push, tryPop or clear at any time; one consumer uses popWait and is
\* blocked in it from PopWaitBegin to PopWaitEnd when it found the queue
\* empty.
Capacities == {1, 2, 3}

InitQueue == \E c \in Capacities : Constructed(c)

QueueFrame == UNCHANGED << netVars, parseCall, engineVars, inCall, spatial, callback, drainedFrom >>

Took(r, call) ==
    /\ queue' = r.q
    /\ popped' = IF r.has THEN Append(popped, r.item) ELSE popped
    /\ consumer' = [consumer EXCEPT !.call = call, !.has = r.has, !.item = r.item]

QueuePush ==
    /\ pushed < MaxPushes
    /\ queue' = push(queue, pushed + 1)
    /\ pushed' = pushed + 1
    /\ UNCHANGED << popped, consumer >>
    /\ QueueFrame

QueueTryPop ==
    /\ Took(tryPop(queue), "tryPop")
    /\ UNCHANGED pushed
    /\ QueueFrame

\* popWait is entered: the predicate is tested first, and the thread blocks
\* only on an empty queue.
PopWaitBegin ==
    /\ ~consumer.waiting
    /\ IF queue.queue_ # <<>>
       THEN Took(popWait(queue), "popWait")
       ELSE /\ consumer' = [consumer EXCEPT !.waiting = TRUE]
            /\ UNCHANGED << queue, popped >>
    /\ UNCHANGED pushed
    /\ QueueFrame

\* The blocked popWait returns: notified after a push, or timed out.
PopWaitEnd ==
    /\ consumer.waiting
    /\ LET r == popWait(queue)
       IN  /\ queue' = r.q
           /\ popped' = IF r.has THEN Append(popped, r.item) ELSE popped
           /\ consumer' = [call |-> "popWait", has |-> r.has, item |-> r.item,
                           waiting |-> FALSE]
    /\ UNCHANGED pushed
    /\ QueueFrame

QueueClear ==
    /\ queue' = clear(queue)
    /\ UNCHANGED << pushed, popped, consumer >>
    /\ QueueFrame

\* ------------------------------------------------------------ the capture side
\* Settings come from the plugin's console variables and key bindings.
Thresholds == {DEFAULT_VOICE_THRESHOLD, 300}
HoldTimes == {0, 30}
Amplitudes == {0, 20}
CallbackSizes == {600, 960, 1920}
MaxFramesPerCallback == (FRAME_SIZE - 1 + 1920) \div FRAME_SIZE

EngineFrame == UNCHANGED << netVars, parseCall, queueVars, playbackLog, now, pose, inCall, spatial, callback, drainedFrom >>

\* The log's frames are those of the capture callback that ran last, and
\* empty once another operation has run.
Configure(e) ==
    /\ audioEngine_' = e
    /\ captureLog' = [captureLog EXCEPT !.frames = <<>>]
    /\ EngineFrame

SetPushToTalk == \E b \in BOOLEAN : Configure(setPushToTalk(audioEngine_, b))

SetPTTActive == \E b \in BOOLEAN : Configure(setPTTActive(audioEngine_, b))

SetVoiceThreshold == \E t \in Thresholds : Configure(setVoiceThreshold(audioEngine_, t))

SetHoldTimeMs == \E ms \in HoldTimes : Configure(setHoldTimeMs(audioEngine_, ms))

SetMicMuted == \E b \in BOOLEAN : Configure(setMicMuted(audioEngine_, b))

\* A callable, or an empty std::function.
SetPacketReadyCallback ==
    \E cb \in BOOLEAN : Configure(setPacketReadyCallback(audioEngine_, cb))

StartStreams ==
    \E captureOk, playbackOk \in BOOLEAN :
        Configure(startStreams(audioEngine_, captureOk, playbackOk))

\* The plugin unloading, and loading again.
Shutdown ==
    /\ audioEngine_' = shutdown(audioEngine_)
    /\ drainedFrom' = NobodyDrained
    /\ playbackLog' = NoPlayback
    /\ UNCHANGED << netVars, parseCall, queueVars, captureLog, now, pose, inCall,
                    spatial, callback >>

Initialize ==
    /\ \E ok \in BOOLEAN : audioEngine_' = initialize(audioEngine_, ok)
    /\ playbackLog' = NoPlayback
    /\ UNCHANGED << netVars, parseCall, queueVars, captureLog, now, pose, inCall,
                    spatial, callback, drainedFrom >>

\* Stopping the streams ends the run of frames the log counts.
StopStreams ==
    /\ audioEngine_' = stopStreams(audioEngine_)
    /\ captureLog' = [frames |-> <<>>, samples |-> 0, processed |-> 0,
                      voiced |-> FALSE, quietRun |-> 0, holdMsAtVoice |-> 0]
    /\ EngineFrame

\* The log after the frames of one callback: for the frames decided by voice
\* activity, how many below-threshold frames in a row this one makes since
\* the last frame above the threshold, and the hold time set at that frame.
RECURSIVE Account(_, _)
Account(log, frames) ==
    IF frames = <<>> THEN log
    ELSE LET f == Head(frames)
             log1 == IF f.pushToTalk THEN log
                     ELSE IF f.above
                     THEN [log EXCEPT !.voiced = TRUE, !.quietRun = 0,
                                      !.holdMsAtVoice = f.holdTimeMs]
                     ELSE [log EXCEPT !.quietRun = @ + 1]
             noted == [frame |-> f, voiced |-> log1.voiced, quietRun |-> log1.quietRun,
                       holdMsAtVoice |-> log1.holdMsAtVoice]
         IN  Account([log1 EXCEPT !.frames = Append(@, noted),
                                  !.processed = @ + 1],
                     Tail(frames))

\* captureCallback: PortAudio hands frameCount samples to the engine; every
\* packet the engine emits goes through the plugin's callback to the relay
\* client.
CaptureCallbackWith(frameCount, v, produced) ==
    LET r == processCapturedAudio(audioEngine_, << [v |-> v, n |-> frameCount] >>,
                                  frameCount, produced)
    IN  /\ audioEngine_' = r.e
        /\ captureLog' =
              Account([captureLog EXCEPT
                          !.frames = <<>>,
                          !.samples = IF audioEngine_.micMuted_ THEN @ ELSE @ + frameCount],
                      r.frames)
        /\ ReturnNet(packetsReady(This, r.frames), "processCapturedAudio")
        /\ UNCHANGED << parseCall, queueVars, playbackLog, now, pose, inCall, spatial, callback, drainedFrom >>

CaptureCallback ==
    /\ audioEngine_.captureStream_
    /\ \E frameCount \in CallbackSizes, v \in Amplitudes,
          produced \in [1..MaxFramesPerCallback -> BOOLEAN] :
          /\ captureLog.samples + frameCount <= MaxCaptured
          /\ CaptureCallbackWith(frameCount, v, produced)

\* ------------------------------------------------- the spatial settings
\* The distance and rolloff settings, given to the engine's SpatialAudio.
PipelineRadii ==
    { << DEFAULT_FULL_VOL_DISTANCE \div DistanceUnit, DEFAULT_MAX_DISTANCE \div DistanceUnit >>,
      << 2, 3 >> }

SetPipelineDistanceParams ==
    \E r \in PipelineRadii, rolloff \in {DEFAULT_ROLLOFF_FACTOR, 2 * DEFAULT_ROLLOFF_FACTOR} :
        /\ audioEngine_' = [audioEngine_ EXCEPT
                               !.spatialAudio_ = setDistanceParams(@, r[1], r[2], rolloff)]
        /\ playbackLog' = NoPlayback
        /\ UNCHANGED << netVars, parseCall, queueVars, captureLog, now, pose,
                        inCall, spatial, callback, drainedFrom >>

\* ------------------------------------- the playback callback, step by step
\* The callback as the playback thread runs it, one queue operation at a
\* time, with the network thread free to push between two of them.
CallbackFrame ==
    UNCHANGED << netVars, parseCall, queueVars, captureLog, playbackLog, now, pose,
                 inCall, spatial >>

FedPacket ==
    parseIncomingAudioPacket(AudioMessage(MSG_AUDIO, 1, <<9>>),
                             Len(AudioMessage(MSG_AUDIO, 1, <<9>>)), EmptyPacket).out

\* The audio-received callback on the network thread.
FeedIncomingPacket ==
    /\ audioEngine_' = feedIncomingPacket(audioEngine_, FedPacket)
    /\ audioEngine_'.incomingPackets_.dropped_ <= MaxQueueDropped
    /\ UNCHANGED << callback, drainedFrom >>
    /\ CallbackFrame

PlaybackBegin ==
    /\ audioEngine_.playbackStream_
    /\ callback.pc = "idle"
    /\ callback' = [pc |-> "drain"]
    /\ UNCHANGED << audioEngine_, drainedFrom >>
    /\ CallbackFrame

\* `while (auto pktOpt = incomingPackets_.tryPop())`: one test and one body.
DrainOne ==
    /\ callback.pc = "drain"
    /\ IF audioEngine_.incomingPackets_.queue_ = <<>>
       THEN callback' = [pc |-> "mix"] /\ UNCHANGED << audioEngine_, drainedFrom >>
       ELSE /\ \E ok \in BOOLEAN :
                 LET e == drainOne(audioEngine_, now, ok)
                     sid == FedPacket.senderSteamId
                 IN  /\ SampleCount(e.peers_[sid].jitterBuffer) <= MaxBuffered
                     /\ audioEngine_' = e
                     /\ drainedFrom' =
                           [ids |-> drainedFrom.ids \cup {sid},
                            decoded |-> drainedFrom.decoded
                                        \cup (IF ok THEN {sid} ELSE {})]
            /\ UNCHANGED callback
    /\ CallbackFrame

\* The mix loop under its lock_guard, then the soft saturation.
MixAndSaturate ==
    /\ callback.pc = "mix"
    /\ \E plc \in SUBSET { id \in DOMAIN audioEngine_.peers_ :
                              audioEngine_.peers_[id].plcFrames < MaxPlcFrames } :
          LET locked == [audioEngine_ EXCEPT !.peersMutex_ = TRUE]
              m == mixPeers(locked, NoPlayback, DOMAIN locked.peers_, now,
                            FRAME_SIZE * 2, plc)
          IN  audioEngine_' = [m.e EXCEPT !.peersMutex_ = FALSE]
    /\ callback' = [pc |-> "idle"]
    /\ UNCHANGED drainedFrom
    /\ CallbackFrame

\* ------------------------------------------------------ the spatializer
SpatialFrame == UNCHANGED << netVars, parseCall, queueVars, engineVars, inCall, callback, drainedFrom >>

\* The radii and the rolloff the settings and the engine give.
Radii == 0..MaxRadius
Rolloffs == {0, DEFAULT_ROLLOFF_FACTOR}

SetDistanceParams ==
    \E inner \in Radii, outer \in Radii, rolloff \in Rolloffs :
        /\ spatial' = [obj |-> setDistanceParams(spatial.obj, inner, outer, rolloff),
                       last |-> NoProcess]
        /\ SpatialFrame

SetEnabled ==
    \E b \in BOOLEAN :
        /\ spatial' = [obj |-> setEnabled(spatial.obj, b), last |-> NoProcess]
        /\ SpatialFrame

Process ==
    \E distUU \in 0..(MaxRadius + 1) :
        /\ spatial' = [spatial EXCEPT !.last = process(spatial.obj, distUU)]
        /\ SpatialFrame

\* ------------------------------------------------------------ specifications
\* The session: every lifecycle operation and every transport event, with a
\* few roster messages so that the roster is populated.
SessionTexts ==
    << Welcome(<< Peer("1", "bob"), PeerNoName("2") >>),
       Control("peer_joined", Peer("1", "bob")),
       Control("peer_left", PeerNoName("1")) >>

OnSessionText == OnTextMessage(SessionTexts)

Next ==
    \/ Connect
    \/ Disconnect
    \/ JoinRoom
    \/ LeaveRoom
    \/ SetAutoReconnect
    \/ OnOpen
    \/ OnClose
    \/ OnError
    \/ OnControlFrame
    \/ OnSessionText
    \/ SendAudioPacket

Spec == Init /\ [][Next]_vars

\* The same session with the transport's thread scheduled: a transport that
\* is running with no link keeps attempting, and an attempt that succeeds is
\* reported by Open.
LiveSpec == Init /\ [][Next]_vars /\ WF_vars(OnOpen)

\* Inbound audio.
OnAudioMessage == OnBinaryMessage(BinaryInputs)

NextReceive ==
    \/ Connect
    \/ Disconnect
    \/ JoinRoom
    \/ LeaveRoom
    \/ OnOpen
    \/ OnClose
    \/ OnSessionText
    \/ OnAudioMessage

ReceiveSpec == Init /\ [][NextReceive]_vars

\* Inbound control messages.
OnAnyText == OnTextMessage(TextInputs)

NextRoster ==
    \/ Connect
    \/ Disconnect
    \/ JoinRoom
    \/ LeaveRoom
    \/ OnOpen
    \/ OnClose
    \/ OnAnyText

RosterSpec == Init /\ [][NextRoster]_vars

\* The wire parser.
NextParse ==
    \/ ParseFresh
    \/ ParseReused

ParseSpec == Init /\ [][NextParse]_vars

\* The bounded queue.
NextQueue ==
    \/ QueuePush
    \/ QueueTryPop
    \/ PopWaitBegin
    \/ PopWaitEnd
    \/ QueueClear

QueueSpec == InitQueue /\ [][NextQueue]_vars

\* The capture side of the audio engine.
NextCapture ==
    \/ SetPushToTalk
    \/ SetPTTActive
    \/ SetVoiceThreshold
    \/ SetHoldTimeMs
    \/ SetMicMuted
    \/ StartStreams
    \/ StopStreams
    \/ CaptureCallback

CaptureSpec == Init /\ [][NextCapture]_vars

\* Inbound audio through the engine to the output, with the roster messages.
NextPipeline ==
    \/ Connect
    \/ OnOpen
    \/ OnSessionText
    \/ OnPipelineAudio
    \/ StartStreams
    \/ PlaybackCallback
    \/ Tick

PipelineSpec == Init /\ [][NextPipeline]_vars

\* The playback side alone: inbound audio, the playback thread and the clock.
NextPlayback ==
    \/ Connect
    \/ OnOpen
    \/ OnPipelineAudio
    \/ StartStreams
    \/ PlaybackCallback
    \/ Tick

PlaybackSpec == Init /\ [][NextPlayback]_vars

\* One participant whose packets stop: concealment takes over.
NextConceal ==
    \/ Connect
    \/ OnOpen
    \/ OnAudioFromOne
    \/ StartStreams
    \/ PlaybackConcealing
    \/ ShortTick

ConcealSpec == Init /\ [][NextConceal]_vars

\* Audio arriving faster than it is played.
NextBurst ==
    \/ Connect
    \/ OnOpen
    \/ OnBurstAudio
    \/ StartStreams
    \/ PlaybackBurst

BurstSpec == Init /\ [][NextBurst]_vars

\* Reads of the jitter buffer of every size.
NextRead ==
    \/ Connect
    \/ OnOpen
    \/ OnReadAudio
    \/ StartStreams
    \/ PlaybackSized

ReadSpec == Init /\ [][NextRead]_vars

\* ------------------------------------------------ calls that take time
\* A thread enters a call, makes the call's accesses at some moment before
\* it leaves, and leaves; the call's effect is applied as it leaves.
Enter(t, op, arg, accesses) ==
    /\ inCall[t] = NoCall
    /\ inCall' = [inCall EXCEPT ![t] = [op |-> op, arg |-> arg, accesses |-> accesses]]
    /\ UNCHANGED << netVars, parseCall, queueVars, engineVars, spatial, callback, drainedFrom >>

Leave(t, op, o) ==
    /\ inCall[t].op = op
    /\ ReturnCall(o, op)
    /\ inCall' = [inCall EXCEPT ![t] = NoCall]
    /\ UNCHANGED << spatial, callback, drainedFrom >>

\* LeoProximityChat::onTick and the match hooks, on the game thread.
JoinRoomBegin ==
    \E m \in {"m1"}, n \in PlayerNames, s \in {"1"} :
        Enter("game", "joinRoom", << m, n, s >>, joinRoomAccesses(This))

JoinRoomEnd ==
    /\ inCall["game"].op = "joinRoom"
    /\ LET a == inCall["game"].arg
       IN  Leave("game", "joinRoom", joinRoom(This, a[1], a[2], a[3]))

LeaveRoomBegin == Enter("game", "leaveRoom", <<>>, leaveRoomAccesses(This))

LeaveRoomEnd == Leave("game", "leaveRoom", leaveRoom(This))

DisconnectBegin == Enter("game", "disconnect", <<>>, disconnectAccesses(This))

DisconnectEnd == Leave("game", "disconnect", disconnect(This))

\* The packet-ready callback of the audio engine, on the capture thread.
SendAudioPacketBegin ==
    /\ bytesSent_ + 1 <= MaxBytesSent
    /\ Enter("capture", "sendAudioPacket", << MSG_AUDIO >>, sendAudioPacketAccesses(This))

SendAudioPacketEnd ==
    /\ inCall["capture"].op = "sendAudioPacket"
    /\ Leave("capture", "sendAudioPacket", sendAudioPacket(This, inCall["capture"].arg))

\* A binary message, on the transport's thread.
HandleBinaryMessageBegin ==
    /\ webSocket_.running /\ webSocket_.open
    /\ \E data \in { AudioMessage(MSG_AUDIO, 1, <<9>>), <<MSG_AUDIO>> } :
          /\ bytesReceived_ + Len(data) <= MaxBytesReceived
          /\ Enter("network", "Binary", data, handleBinaryMessageAccesses(This, data))

HandleBinaryMessageEnd ==
    /\ inCall["network"].op = "Binary"
    /\ Leave("network", "Binary",
             onMessage(This, WebSocketMessage("Message", "", "", TRUE, inCall["network"].arg)))

\* A text message, on the transport's thread.
HandleTextMessageBegin ==
    /\ webSocket_.running /\ webSocket_.open
    /\ \E i \in 1..Len(SessionTexts) :
          Enter("network", "Text", SessionTexts[i],
                handleTextMessageCallbacks(This, SessionTexts[i]))

HandleTextMessageEnd ==
    /\ inCall["network"].op = "Text"
    /\ Leave("network", "Text",
             onMessage(This, WebSocketMessage("Message", "", "", FALSE, inCall["network"].arg)))

\* Roster messages handled on the transport's thread while the game thread
\* joins and leaves.
NextRosterCallback ==
    \/ inCall["game"] = NoCall /\ Connect
    \/ inCall["network"] = NoCall /\ OnOpen
    \/ JoinRoomBegin
    \/ JoinRoomEnd
    \/ LeaveRoomBegin
    \/ LeaveRoomEnd
    \/ HandleTextMessageBegin
    \/ HandleTextMessageEnd

RosterCallbackSpec == Init /\ [][NextRosterCallback]_vars

\* The microphone muted and unmuted while the capture stream runs, in voice
\* activation.
NextMute ==
    \/ SetHoldTimeMs
    \/ SetMicMuted
    \/ StartStreams
    \/ StopStreams
    \/ CaptureCallback

MuteSpec == Init /\ [][NextMute]_vars

\* Inbound audio played, the engine shut down and initialized again.
NextLazy ==
    \/ Connect
    \/ OnOpen
    \/ OnPipelineAudio
    \/ Initialize
    \/ StartStreams
    \/ PlaybackCallback
    \/ Shutdown

LazySpec == Init /\ [][NextLazy]_vars

\* Inbound audio played while the distance settings change.
NextSettings ==
    \/ Connect
    \/ OnOpen
    \/ OnAudioFromOne
    \/ StartStreams
    \/ SetPipelineDistanceParams
    \/ PlaybackCallback

SettingsSpec == Init /\ [][NextSettings]_vars

\* The capture side with the packet-ready callback set and unset.
NextEncode ==
    \/ SetPushToTalk
    \/ SetPTTActive
    \/ SetPacketReadyCallback
    \/ StartStreams
    \/ CaptureCallback

EncodeSpec == Init /\ [][NextEncode]_vars

\* The playback thread inside a callback while the network thread feeds the
\* queue; the playback thread is scheduled, the network thread owes nothing.
NextStall ==
    \/ StartStreams
    \/ FeedIncomingPacket
    \/ PlaybackBegin
    \/ DrainOne
    \/ MixAndSaturate

StallSpec ==
    Init /\ [][NextStall]_vars /\ WF_vars(DrainOne) /\ WF_vars(MixAndSaturate)

\* One spatializer, configured and run.
NextSpatial ==
    \/ SetDistanceParams
    \/ SetEnabled
    \/ Process

SpatialSpec == Init /\ [][NextSpatial]_vars

\* The three threads of the relay client, their calls overlapping.
NextRace ==
    \/ inCall["game"] = NoCall /\ Connect
    \/ inCall["network"] = NoCall /\ OnOpen
    \/ JoinRoomBegin
    \/ JoinRoomEnd
    \/ LeaveRoomBegin
    \/ LeaveRoomEnd
    \/ DisconnectBegin
    \/ DisconnectEnd
    \/ SendAudioPacketBegin
    \/ SendAudioPacketEnd
    \/ HandleBinaryMessageBegin
    \/ HandleBinaryMessageEnd

RaceSpec == Init /\ [][NextRace]_vars

\* The game thread setting the listener pose while the playback thread reads it.
NextPose ==
    \/ SetListenerStateBegin
    \/ SetListenerStateNext
    \/ ReadListenerBegin
    \/ ReadListenerNext

PoseSpec == Init /\ [][NextPose]_vars

\* ==================================================================== claims
\* The fields of the client and of its transport, without the record of the
\* last call.
Fields == << state_, serverUrl_, currentMatchId_, localSteamId_, localPlayerName_,
             peers_, autoReconnect_, bytesSent_, bytesReceived_, lastError_,
             audioReceivedCb_, peerJoinedCb_, peerLeftCb_, stateChangedCb_,
             webSocket_ >>

\* C1: handling a transport Close event leaves the state Reconnecting when
\* auto-reconnect is enabled and Disconnected otherwise, leaves the roster
\* empty, and fires the state-changed callback exactly once, with the new
\* state; the event has no other outcome for the state.
C1_CloseOutcome ==
    [][lastCall' = "Close" =>
          /\ state_' = (IF autoReconnect_ THEN "Reconnecting" ELSE "Disconnected")
          /\ peers_' = NoPeers
          /\ \E r \in CloseReasons :
                fired' = << StateChangedCall(state_', "Connection closed: " \o r) >>
          /\ sent' = <<>>
          /\ UNCHANGED << currentMatchId_, localSteamId_, autoReconnect_, lastError_ >>
      ]_vars

\* A connection lost while in a room with auto-reconnect switched off.
C1_Witness ==
    /\ lastCall = "Close"
    /\ state_ = "Disconnected"
    /\ ~autoReconnect_
    /\ currentMatchId_ # ""
    /\ Len(fired) = 1 /\ fired[1].state = "Disconnected"

\* C2: connect() from every state first disconnects (roster, session id and
\* identity cleared) and ends with the state Connecting.
C2_ConnectDisconnectsFirst ==
    [][lastCall' = "connect" =>
          /\ state_' = "Connecting"
          /\ peers_' = NoPeers
          /\ currentMatchId_' = ""
          /\ localSteamId_' = ""
      ]_vars

\* C3: the state becomes Connected only by an Open event of a transport that
\* a connect() started; connect() itself leaves the state Connecting;
\* disconnect() stops the transport and only connect() starts it again, so no
\* Open follows a disconnect() without a new connect().
C3_ConnectedOnlyByOpen ==
    [][/\ (state_' = "Connected" /\ state_ # "Connected"
              => lastCall' = "Open" /\ webSocket_.running)
       /\ (lastCall' = "Open" => webSocket_.running /\ state_' = "Connected")
       /\ (lastCall' = "connect" => state_' = "Connecting")
       /\ (lastCall' = "disconnect" => ~webSocket_'.running /\ state_' = "Disconnected")
       /\ (~webSocket_.running /\ webSocket_'.running => lastCall' = "connect")
      ]_vars

\* The link confirmed after a connect().
C3_Witness ==
    /\ lastCall = "Open"
    /\ state_ = "Connected"
    /\ webSocket_.running /\ webSocket_.open
    /\ fired = << StateChangedCall("Connected", "Connected to " \o serverUrl_) >>

\* C4: with the transport reconnecting automatically, a session in state
\* Reconnecting becomes Connected once the transport has the link again, with
\* no connect() by a caller (unless a caller disconnects or connects anew in
\* the meantime).
C4_ReconnectsEventually ==
    (state_ = "Reconnecting" /\ webSocket_.running)
        ~> (state_ = "Connected" \/ lastCall \in {"connect", "disconnect"})

\* Connected again after a loss, the session id of the lost link still set,
\* by an Open that no caller asked for.
C4_Witness ==
    /\ lastCall = "Open"
    /\ state_ = "Connected"
    /\ autoReconnect_
    /\ webSocket_.automaticReconnection
    /\ currentMatchId_ # ""

\* C5 as stated: an Error event puts the state in Error and records the
\* reason, and the state then stays Error until connect() or disconnect().
C5_ErrorStaysUntilCaller ==
    [][/\ (lastCall' = "Error" =>
              state_' = "Error" /\ lastError_' \in ErrorReasons)
       /\ (state_ = "Error" /\ state_' # "Error"
              => lastCall' \in {"connect", "disconnect"})
      ]_vars

\* C5 amended: an Error event puts the state in Error, records the reason as
\* the error message and reports both to the state-changed callback; handling
\* it sends nothing and starts nothing.  The state leaves Error by connect(),
\* by disconnect(), or by an Open of a transport that was configured to
\* reconnect automatically.
C5_ErrorRecorded ==
    [][/\ (lastCall' = "Error" =>
              /\ state_' = "Error"
              /\ lastError_' \in ErrorReasons
              /\ fired' = << StateChangedCall("Error", lastError_') >>
              /\ sent' = <<>>
              /\ UNCHANGED << peers_, currentMatchId_, localSteamId_ >>)
       /\ (state_ = "Error" /\ state_' # "Error"
              => lastCall' \in {"connect", "disconnect", "Open"})
       /\ (state_ = "Error" /\ lastCall' = "Open"
              => webSocket_.automaticReconnection /\ state_' = "Connected")
      ]_vars

\* A failed attempt reported while the earlier message was another one.
C5_Witness ==
    /\ lastCall = "Error"
    /\ state_ = "Error"
    /\ lastError_ = "timeout"
    /\ fired = << StateChangedCall("Error", "timeout") >>

\* C6: joinRoom outside Connected changes no field and sends nothing; in
\* Connected it sends exactly one join message carrying the three arguments
\* and stores them.
C6_JoinRoomFrame ==
    [][\A m \in MatchIds, n \in PlayerNames, s \in LocalSteamIds :
          JoinRoomAs(m, n, s) =>
              IF state_ # "Connected"
              THEN sent' = <<>> /\ fired' = <<>> /\ UNCHANGED Fields
              ELSE /\ sent' = << TextOut("join", m, n, s) >>
                   /\ currentMatchId_' = m
                   /\ localPlayerName_' = n
                   /\ localSteamId_' = s
                   /\ UNCHANGED << state_, peers_, bytesSent_, webSocket_ >>
      ]_vars

\* A join sent on a confirmed link.
C6_Witness ==
    /\ lastCall = "joinRoom"
    /\ state_ = "Connected"
    /\ sent = << TextOut("join", "m1", "me", "256") >>
    /\ currentMatchId_ = "m1" /\ localSteamId_ = "256" /\ localPlayerName_ = "me"

\* C7: after leaveRoom, from any state, the roster and the session id are
\* empty; a leave message was sent exactly when the state was Connected and
\* the session id was set.
C7_LeaveRoomClears ==
    [][lastCall' = "leaveRoom" =>
          /\ peers_' = NoPeers
          /\ currentMatchId_' = ""
          /\ sent' = (IF state_ = "Connected" /\ currentMatchId_ # ""
                      THEN << TextOut("leave", "", "", "") >>
                      ELSE <<>>)
      ]_vars

\* A room left on a live link.
C7_Witness ==
    /\ lastCall = "leaveRoom"
    /\ state_ = "Connected"
    /\ sent = << TextOut("leave", "", "", "") >>
    /\ peers_ = NoPeers /\ currentMatchId_ = ""

\* C8: sendAudioPacket hands the packet to the transport and adds its length
\* to the sent-bytes counter exactly when the state is Connected and a session
\* id is set; otherwise it sends nothing and leaves the counter.  No step
\* decreases the counter.
C8_SendAudioCounts ==
    [][/\ \A p \in OutgoingPackets :
            SendPacket(p) =>
                IF state_ = "Connected" /\ currentMatchId_ # ""
                THEN sent' = << BinaryOut(p) >> /\ bytesSent_' = bytesSent_ + Len(p)
                ELSE sent' = <<>> /\ bytesSent_' = bytesSent_
       /\ bytesSent_' >= bytesSent_
      ]_vars

\* A second packet counted on top of the first.
C8_Witness ==
    /\ lastCall = "sendAudioPacket"
    /\ sent = << BinaryOut(<<3, 7>>) >>
    /\ bytesSent_ = 3

\* The packet a well-formed audio message of sender w and payload opus carries.
ExpectedPacket(w, opus) ==
    [senderSteamId |-> w.id,
     senderPosition |-> [x |-> <<0, 0, 128, 63>>, y |-> <<0, 0, 0, 64>>,
                         z |-> <<0, 0, 64, 64>>],
     opusData |-> opus]

\* C9: a well-formed inbound audio message is forwarded to the pipeline, as
\* the packet it carries, exactly when its sender identity differs from the
\* local identity; a packet from the local identity is not forwarded; either
\* way the only field that changes is the received-bytes counter.
C9_SelfFilter ==
    [][\A k \in 1..Len(AudioSenders), opus \in Payloads :
          LET w == AudioSenders[k]
              data == AudioMessage(MSG_AUDIO, w.n, opus)
          IN  OnBinary(data) =>
                /\ fired' = (IF w.id # localSteamId_
                             THEN << AudioReceivedCall(ExpectedPacket(w, opus)) >>
                             ELSE <<>>)
                /\ bytesReceived_' = bytesReceived_ + Len(data)
                /\ sent' = <<>>
                /\ UNCHANGED << state_, serverUrl_, currentMatchId_, localSteamId_,
                                localPlayerName_, peers_, autoReconnect_, bytesSent_,
                                lastError_, webSocket_ >>
      ]_vars

\* An echo of the local participant's own audio dropped after a foreign
\* packet was counted.
C9_Witness ==
    /\ lastCall = "Binary"
    /\ localSteamId_ = "256"
    /\ fired = <<>>
    /\ bytesReceived_ = 22 + 22

\* Reading roster entries: the identity and the name an entry gives.
IsString(e, key) == key \in DOMAIN e.f /\ e.f[key].t = "string"
Malformed(e) ==
    \/ e.t # "object"
    \/ ("steamId" \in DOMAIN e.f /\ e.f["steamId"].t # "string")
    \/ ("playerName" \in DOMAIN e.f /\ e.f["playerName"].t # "string")
HasIdentity(e) == e.t = "object" /\ IsString(e, "steamId") /\ e.f["steamId"].s # ""
IdentityOf(e) == IF IsString(e, "steamId") THEN e.f["steamId"].s ELSE ""
NameOf(e) == IF IsString(e, "playerName") THEN e.f["playerName"].s ELSE "Unknown"

\* The entries of a list before its first malformed one.
RECURSIVE WellTypedPrefix(_)
WellTypedPrefix(list) ==
    IF list = <<>> \/ Malformed(Head(list)) THEN <<>>
    ELSE <<Head(list)>> \o WellTypedPrefix(Tail(list))

\* The joined callbacks for the entries of a list that have an identity.
RECURSIVE JoinedCalls(_)
JoinedCalls(list) ==
    IF list = <<>> THEN <<>>
    ELSE (IF HasIdentity(Head(list))
          THEN << PeerJoinedCall(IdentityOf(Head(list)), NameOf(Head(list))) >>
          ELSE <<>>) \o JoinedCalls(Tail(list))

\* The roster holds every entry of list that has an identity, under the name
\* its last such entry gives, and beside them only what it held before.
RosterHolds(before, after, list) ==
    LET ids == { IdentityOf(list[i]) : i \in { j \in 1..Len(list) : HasIdentity(list[j]) } }
    IN  /\ DOMAIN after = DOMAIN before \cup ids
        /\ \A sid \in DOMAIN before \ ids : after[sid] = before[sid]
        /\ \A i \in 1..Len(list) :
              (/\ HasIdentity(list[i])
               /\ \A j \in (i + 1)..Len(list) :
                     ~(HasIdentity(list[j]) /\ IdentityOf(list[j]) = IdentityOf(list[i])))
              => after[IdentityOf(list[i])] =
                     [steamId |-> IdentityOf(list[i]), playerName |-> NameOf(list[i])]

\* peer_left for an entry with a string identity: the roster entry is gone,
\* the others stay, and the left callback is fired once for that identity.
LeftHandled(e) ==
    LET sid == IdentityOf(e)
    IN  /\ DOMAIN peers_' = DOMAIN peers_ \ {sid}
        /\ \A k \in DOMAIN peers_' : peers_'[k] = peers_[k]
        /\ fired' = << PeerLeftCall(sid, IF sid \in DOMAIN peers_
                                         THEN peers_[sid].playerName ELSE "") >>

RelayError(text) == Parsed(JObject([type |-> JString("error"), message |-> JString(text)]))

UnknownTypeTexts ==
    << Parsed(JObject([type |-> JString("bogus")])),
       Parsed(JObject([other |-> JString("x")])) >>

\* C11: after an inbound control message of type error is handled the state
\* is Error and the state-changed callback was given the relay's message as
\* the state's info.
C11_RelayErrorSetsErrorState ==
    [][OnText(RelayError("room full")) =>
          /\ state_' = "Error"
          /\ \E i \in 1..Len(fired') :
                fired'[i].cb = "stateChanged" /\ fired'[i].state = "Error"
      ]_vars

\* C12: a control message whose type is none of the known ones leaves the
\* state, the roster, the session id and the identity as they were and fires
\* no callback; it sends nothing and records no error either.
C12_UnknownTypeIgnored ==
    [][\A i \in 1..Len(UnknownTypeTexts) :
          OnText(UnknownTypeTexts[i]) =>
              /\ UNCHANGED << state_, peers_, currentMatchId_, localSteamId_, lastError_ >>
              /\ fired' = <<>>
              /\ sent' = <<>>
      ]_vars

\* An unknown message handled in a room with a roster, after which the link
\* is still up and no error is recorded.
C12_Witness ==
    /\ lastCall = "Text"
    /\ state_ = "Connected"
    /\ DOMAIN peers_ = {"1", "2"}
    /\ currentMatchId_ = "m1"
    /\ fired = <<>>
    /\ lastError_ = ""

\* C13: a binary message shorter than the 21-byte header, or whose first byte
\* is not 0x03, does not parse; it is not forwarded to the pipeline and leaves
\* the roster and the session state as they were (its bytes are counted).
C13_MalformedAudioDiscarded ==
    [][\A data \in BinaryInputs :
          (Len(data) < 21 \/ data[1] # 3) =>
              /\ ~parseIncomingAudioPacket(data, Len(data), EmptyPacket).ok
              /\ OnBinary(data) =>
                    /\ fired' = <<>>
                    /\ sent' = <<>>
                    /\ bytesReceived_' = bytesReceived_ + Len(data)
                    /\ UNCHANGED << state_, peers_, currentMatchId_, localSteamId_,
                                    lastError_, webSocket_ >>
      ]_vars

\* A message with a foreign type byte dropped in a room with a roster: no
\* sender of the inputs has the empty identity, so nothing was filtered as an
\* echo.
C13_Witness ==
    /\ lastCall = "Binary"
    /\ localSteamId_ = ""
    /\ DOMAIN peers_ = {"1", "2"}
    /\ bytesReceived_ = 22
    /\ fired = <<>>

\* C14: for every buffer of at least 21 bytes whose first byte is 0x03 the
\* parse succeeds and the packet's payload is exactly the bytes after the
\* 21-byte header (none for a buffer of 21 bytes), whatever the packet object
\* held before the call.
C14_PayloadIsRest ==
    parseCall.called /\ Len(parseCall.data) >= 21 /\ parseCall.data[1] = 3
        => /\ parseCall.ok
           /\ parseCall.out.opusData = SubSeq(parseCall.data, 22, Len(parseCall.data))

\* C15: the size of a queue of capacity C never exceeds C.  A push onto a
\* queue holding C items removes the oldest, appends the new item, leaves the
\* size at C and adds exactly 1 to the drop counter; a push onto a queue
\* holding fewer leaves the drop counter and appends.  Push never waits: it
\* can be taken whatever the queue holds and whoever is blocked in popWait.
\* No other operation changes the drop counter.
C15_BoundedDropOldest ==
    [][/\ size(queue') <= queue'.maxSize_
       /\ queue'.maxSize_ = queue.maxSize_
       /\ (pushed < MaxPushes => ENABLED QueuePush)
       /\ IF pushed' # pushed
          THEN IF size(queue) = queue.maxSize_
               THEN /\ queue'.queue_ = Append(Tail(queue.queue_), pushed')
                    /\ size(queue') = queue.maxSize_
                    /\ droppedCount(queue') = droppedCount(queue) + 1
               ELSE /\ queue'.queue_ = Append(queue.queue_, pushed')
                    /\ droppedCount(queue') = droppedCount(queue)
          ELSE droppedCount(queue') = droppedCount(queue)
      ]_vars

\* Two more items than a queue of capacity 3 holds.
C15_Witness ==
    /\ queue.maxSize_ = 3
    /\ queue.queue_ = << 3, 4, 5 >>
    /\ droppedCount(queue) = 2

\* The sequence is strictly increasing.
Increasing(seq) == \A i, j \in 1..Len(seq) : i < j => seq[i] < seq[j]

\* C16: tryPop returns the oldest item still in the queue and removes it, or
\* returns nothing and leaves the queue as it is when the queue is empty, and
\* it can always be taken; popWait returns the oldest item when there is one,
\* and on an empty queue blocks until an item arrives or the wait times out.
\* With producers and consumers interleaved, the items returned are a
\* subsequence of the items pushed, in push order, and none is returned
\* twice.
C16_Fifo ==
    [][/\ ENABLED QueueTryPop
       /\ (QueueTryPop \/ PopWaitBegin \/ PopWaitEnd) =>
             IF queue.queue_ = <<>>
             THEN /\ queue' = queue /\ popped' = popped
                  /\ IF PopWaitBegin THEN consumer'.waiting ELSE ~consumer'.has
             ELSE /\ \A i \in 1..size(queue) : queue.queue_[1] <= queue.queue_[i]
                  /\ consumer'.has /\ consumer'.item = queue.queue_[1]
                  /\ queue'.queue_ = Tail(queue.queue_)
                  /\ popped' = Append(popped, queue.queue_[1])
       /\ Increasing(popped')
       /\ \A i \in 1..Len(popped') : popped'[i] \in 1..pushed'
       /\ Increasing(queue'.queue_)
       /\ \A i \in 1..Len(popped'), j \in 1..size(queue') : popped'[i] < queue'.queue_[j]
      ]_vars

\* Item 2 was dropped between two pops; the second pop returned item 3 to a
\* tryPop while another consumer was blocked in popWait.
C16_Witness ==
    /\ popped = << 1, 3 >>
    /\ consumer.call = "tryPop" /\ consumer.has /\ consumer.item = 3
    /\ consumer.waiting
    /\ droppedCount(queue) = 1

\* The whole number of 20 ms frames in ms milliseconds.
WholeFrames(ms) == CHOOSE k \in 0..ms : 20 * k <= ms /\ ms < 20 * (k + 1)

\* C17: in voice-activation mode a frame whose RMS is above the threshold is
\* transmitted; the below-threshold frames that follow it in a row are
\* transmitted for exactly floor(holdTimeMs / 20) frames (holdTimeMs as set
\* when the frame above the threshold was processed) and the next one is not;
\* a frame above the threshold restarts the count.  Frames are those of one
\* run of the capture stream, and only frames decided by voice activity count.
C17_VadHold ==
    \A i \in 1..Len(captureLog.frames) :
        LET noted == captureLog.frames[i]
            f == noted.frame
        IN  ~f.pushToTalk =>
                IF f.above THEN f.transmit /\ noted.quietRun = 0
                ELSE f.transmit <=> (/\ noted.voiced
                                     /\ noted.quietRun <= WholeFrames(noted.holdMsAtVoice))

\* With a hold time of 30 ms, the first quiet frame after a voiced one was
\* transmitted and the second was not.
C17_Witness ==
    /\ Len(captureLog.frames) = 2
    /\ captureLog.frames[1].holdMsAtVoice = 30
    /\ ~captureLog.frames[1].frame.pushToTalk /\ ~captureLog.frames[1].frame.above
    /\ captureLog.frames[1].quietRun = 1 /\ captureLog.frames[1].frame.transmit
    /\ ~captureLog.frames[2].frame.pushToTalk /\ ~captureLog.frames[2].frame.above
    /\ captureLog.frames[2].quietRun = 2 /\ ~captureLog.frames[2].frame.transmit

\* C18: in push-to-talk mode the transmit decision of every completed frame
\* is the talk-key state at that frame, whatever its energy and whatever the
\* hold counter holds; a callback in that mode (a step that grows the sample
\* count) leaves the hold counter alone;
\* after the callback the is-speaking flag is the decision of its last frame.
C18_PushToTalk ==
    [][/\ \A i \in 1..Len(captureLog'.frames) :
             LET f == captureLog'.frames[i].frame
             IN  f.pushToTalk => f.transmit = f.pttActive
       /\ captureLog'.samples > captureLog.samples =>
             /\ audioEngine_.pushToTalk_ =>
                   audioEngine_'.holdFramesRemaining_ = audioEngine_.holdFramesRemaining_
             /\ captureLog'.frames # <<>> =>
                   audioEngine_'.isSpeaking_ =
                       captureLog'.frames[Len(captureLog'.frames)].frame.transmit
      ]_vars

\* A loud frame with the hold counter running and the key up: not
\* transmitted, and the flag is down.
C18_Witness ==
    /\ lastCall = "processCapturedAudio"
    /\ Len(captureLog.frames) = 1
    /\ captureLog.frames[1].frame.pushToTalk
    /\ captureLog.frames[1].frame.above
    /\ ~captureLog.frames[1].frame.pttActive
    /\ ~captureLog.frames[1].frame.transmit
    /\ audioEngine_.holdFramesRemaining_ > 0
    /\ ~audioEngine_.isSpeaking_

\* C19: with the microphone unmuted and the stream running, after k captured
\* samples exactly floor(k / 960) frames have been processed and k mod 960
\* samples wait in the accumulator; every frame processed (decision, encode,
\* emission) is one of exactly 960 samples; a callback of n samples (the
\* growth of the sample count) processes floor((held + n) / 960) frames and
\* keeps the samples left over for the next one.
C19_WholeFrames ==
    [][/\ captureLog'.processed * 960 <= captureLog'.samples
       /\ captureLog'.samples < (captureLog'.processed + 1) * 960
       /\ audioEngine_'.captureAccumPos_ = captureLog'.samples - captureLog'.processed * 960
       /\ SampleCount(audioEngine_'.captureAccumBuffer_) = audioEngine_'.captureAccumPos_
       /\ \A i \in 1..Len(captureLog'.frames) : captureLog'.frames[i].frame.samples = 960
       /\ captureLog'.samples > captureLog.samples =>
             LET n == captureLog'.samples - captureLog.samples
                 held == audioEngine_.captureAccumPos_
                 left == (held + n) % 960
             IN  /\ Len(captureLog'.frames) = (held + n) \div 960
                 /\ audioEngine_'.captureAccumPos_ = left
                 /\ \E v \in Amplitudes :
                        audioEngine_'.captureAccumBuffer_ =
                            StoreSamples(IF held + n < 960
                                         THEN audioEngine_.captureAccumBuffer_
                                         ELSE <<>>,
                                         v * audioEngine_.micVolume_,
                                         IF held + n < 960 THEN n ELSE left)
      ]_vars

\* Three callbacks of 600 samples: the third completed the first frame, and
\* 840 samples of two callbacks wait for the second.
C19_Witness ==
    /\ lastCall = "processCapturedAudio"
    /\ captureLog.samples = 1800
    /\ captureLog.processed = 1
    /\ Len(captureLog.frames) = 0
    /\ audioEngine_.captureAccumPos_ = 840
    /\ Len(audioEngine_.captureAccumBuffer_) = 2

\* The identities whose peer-left event the handler just passed on.
LeftNow == { fired'[i].steamId : i \in { j \in 1..Len(fired') : fired'[j].cb = "peerLeft" } }

\* C20: when a peer-left event for identity X is received, X's per-peer
\* state is removed from the engine's peer table; in every other step no
\* peer's state leaves the table.
C20_PeerLeftRemovesState ==
    [][IF OnSessionText /\ LeftNow # {}
       THEN \A x \in LeftNow : x \notin DOMAIN audioEngine_'.peers_
       ELSE DOMAIN audioEngine_.peers_ \subseteq DOMAIN audioEngine_'.peers_
      ]_vars

\* What the mixing loop noted for peer id in the last playback callback.
MixedFor(id) ==
    { playbackLog.mixed[i] : i \in { j \in 1..Len(playbackLog.mixed) :
                                        playbackLog.mixed[j].id = id } }

\* C21 as stated: a peer whose last packet is more than 2000 ms old when a
\* playback callback mixes is inactive after it; an inactive peer adds
\* nothing to the mix; a packet drained from an inactive peer makes it active
\* and its audio is mixed.
C21_TimeoutAndReturn ==
    /\ \A i \in 1..Len(playbackLog.mixed) :
          LET m == playbackLog.mixed[i]
          IN  /\ m.activeBefore /\ m.elapsed > 2000 => ~m.activeAfter
              /\ ~m.activeBefore => m.real = <<>> /\ ~m.concealed /\ ~m.activeAfter
    /\ \A i \in 1..Len(playbackLog.drained) :
          LET d == playbackLog.drained[i]
          IN  d.existed /\ ~d.activeBefore =>
                  /\ d.activeAfter
                  /\ \A m \in MixedFor(d.id) : m.real # <<>>

\* C21, amended: the timeout marks a peer inactive at a callback that finds
\* its jitter buffer empty, and only a packet that decodes to samples brings
\* the peer back, in the callback that drains it.
C21_TimeoutWhenDrained ==
    /\ \A i \in 1..Len(playbackLog.mixed) :
          LET m == playbackLog.mixed[i]
          IN  /\ m.activeBefore /\ m.elapsed > 2000 /\ m.buffered = <<>> => ~m.activeAfter
              /\ m.activeBefore /\ m.elapsed <= 2000 => m.activeAfter
              /\ m.activeBefore /\ m.buffered # <<>> => m.activeAfter /\ m.real # <<>>
              /\ ~m.activeBefore => m.real = <<>> /\ ~m.concealed /\ ~m.activeAfter
    /\ \A i \in 1..Len(playbackLog.drained) :
          LET d == playbackLog.drained[i]
          IN  /\ d.samples > 0 =>
                    /\ d.activeAfter
                    /\ \A m \in MixedFor(d.id) : m.activeBefore /\ m.real # <<>>
              /\ d.samples = 0 => d.activeAfter = d.activeBefore

\* A peer heard before and inactive since the timeout sends a packet that
\* decodes: it is active and mixed again.
C21_Witness ==
    /\ playbackLog.ran /\ now > 2000
    /\ \E i \in 1..Len(playbackLog.drained) :
          LET d == playbackLog.drained[i]
          IN  /\ d.heardBefore /\ ~d.activeBefore /\ d.samples > 0 /\ d.activeAfter
              /\ \E m \in MixedFor(d.id) : m.real # <<>> /\ m.activeAfter

\* C22: a playback callback mixes a concealment frame for a peer only when
\* the peer is active, its jitter buffer holds nothing, less than 500 ms have
\* passed since its last packet and its counter is below 10; the counter goes
\* up by one per concealed frame and by nothing else, is 0 after a packet
\* that decoded, and never exceeds 10.
C22_ConcealmentGated ==
    /\ \A id \in DOMAIN audioEngine_.peers_ : audioEngine_.peers_[id].plcFrames \in 0..10
    /\ \A i \in 1..Len(playbackLog.mixed) :
          LET m == playbackLog.mixed[i]
          IN  /\ m.concealed =>
                    /\ m.activeBefore
                    /\ SampleCount(m.buffered) = 0
                    /\ m.elapsed < 500
                    /\ m.plcFramesBefore < 10
              /\ m.plcFramesAfter = m.plcFramesBefore + (IF m.concealed THEN 1 ELSE 0)
    /\ \A i \in 1..Len(playbackLog.drained) :
          LET d == playbackLog.drained[i]
          IN  d.plcFramesAfter = IF d.samples > 0 THEN 0 ELSE d.plcFramesBefore

\* The eleventh callback in a row without data, within the 500 ms: the
\* counter is at 10 and no concealment frame is mixed.
C22_Witness ==
    \E i \in 1..Len(playbackLog.mixed) :
        LET m == playbackLog.mixed[i]
        IN  /\ m.activeBefore /\ m.buffered = <<>> /\ m.elapsed = 250
            /\ m.plcFramesBefore = 10 /\ ~m.concealed /\ m.plcFramesAfter = 10

\* C23: the number of samples a peer's jitter buffer holds never exceeds its
\* capacity of 48000 samples (500 ms of stereo audio), whatever packets
\* arrive and whatever playback callbacks run.
C23_JitterBufferBounded ==
    \A id \in DOMAIN audioEngine_.peers_ :
        SampleCount(audioEngine_.peers_[id].jitterBuffer) <= 48000

\* The samples of a followed by the samples of b.
RECURSIVE Joined(_, _)
Joined(a, b) ==
    IF b = <<>> THEN a
    ELSE Joined(IF a # <<>> /\ a[Len(a)].v = Head(b).v
                THEN [a EXCEPT ![Len(a)].n = @ + Head(b).n]
                ELSE Append(a, Head(b)),
                Tail(b))

\* C24: with m samples buffered for an active peer, a request for n samples
\* adds exactly min(n, m) samples to the output, the oldest first and in the
\* order they were written, and leaves the other m - min(n, m) buffered; a
\* callback that delivered real samples of a peer conceals nothing for it.
C24_ReadsExactly ==
    \A i \in 1..Len(playbackLog.mixed) :
        LET mx == playbackLog.mixed[i]
            m == SampleCount(mx.buffered)
            n == mx.requested
            least == IF n <= m THEN n ELSE m
        IN  mx.activeBefore =>
                /\ SampleCount(mx.real) = least
                /\ SampleCount(mx.left) = m - least
                /\ Joined(mx.real, mx.left) = mx.buffered
                /\ mx.real # <<>> => ~mx.concealed

\* A request for 1920 samples when 960 of one packet and 1920 of the next
\* are buffered: the 960 and the first 960 of the next are delivered.
C24_Witness ==
    \E i \in 1..Len(playbackLog.mixed) :
        LET mx == playbackLog.mixed[i]
        IN  /\ mx.activeBefore /\ mx.requested = 1920
            /\ Len(mx.buffered) = 2 /\ mx.buffered[1].n = 960 /\ mx.buffered[2].n = 1920
            /\ mx.real = << mx.buffered[1], [mx.buffered[2] EXCEPT !.n = 960] >>
            /\ mx.left = << [mx.buffered[2] EXCEPT !.n = 960] >>

\* C25: the position and heading a playback callback spatializes with are
\* those of one single setListenerState call (or the initial ones).
C25_PoseNeverTorn == pose.used \in pose.given

\* C26: every step of a playback callback that reads or writes the state of
\* a peer (the lookup, the decode with the peer's decoder, the update after
\* a decode, the mix) runs with the peer-table mutex held.
C26_PeerStateUnderMutex ==
    \A i \in 1..Len(playbackLog.steps) :
        playbackLog.steps[i].op \in {"lookup", "decode", "update", "mix"}
            => playbackLog.steps[i].held

\* Two accesses of the same member that conflict: by different threads inside
\* overlapping calls, one of them a write, no mutex held by both.
Unsynchronised(a, b) ==
    /\ a.field = b.field
    /\ a.write \/ b.write
    /\ a.held \cap b.held = {}

\* C27: while sendAudioPacket runs on the capture thread together with joinRoom,
\* leaveRoom or disconnect on the game thread and the handling of inbound
\* messages on the network thread, no read of the session id or of the local
\* identity is unsynchronised with a concurrent write of it.
C27_SendAudioPacketThreadSafe ==
    \A t1 \in Threads : \A t2 \in Threads \ {t1} :
        \A a \in inCall[t1].accesses, b \in inCall[t2].accesses :
            /\ a.field \in {"currentMatchId_", "localSteamId_"}
            /\ ~a.write
            /\ b.write
            => ~Unsynchronised(a, b)

\* The attenuation of the configured spatializer at every distance.
VolumeAt(d) == process(spatial.obj, d).volume

\* C28 as stated: with spatialization enabled the returned volume is 1.0 at
\* every distance <= innerRadius, 0.0 at every distance >= outerRadius with
\* the stereo output left all zeros, and non-increasing in between, for
\* every rolloff > 0.
C28_DistanceAttenuation ==
    (spatial.last.called /\ spatial.obj.enabled_ /\ spatial.obj.rolloff_ > 0) =>
        /\ spatial.last.dist <= spatial.obj.innerRadius_ => spatial.last.volume = VolumeScale
        /\ spatial.last.dist >= spatial.obj.outerRadius_ =>
              spatial.last.volume = 0 /\ ~spatial.last.written
        /\ \A d \in 0..(MaxRadius + 1) :
              (spatial.obj.innerRadius_ <= d /\ d <= spatial.last.dist
                  /\ spatial.last.dist <= spatial.obj.outerRadius_)
              => VolumeAt(d) >= spatial.last.volume

\* C28, amended: the same when innerRadius < outerRadius.
C28_AttenuationInnerBelowOuter ==
    (spatial.obj.innerRadius_ < spatial.obj.outerRadius_) => C28_DistanceAttenuation

\* A call strictly between the radii returning less than full volume, the
\* radii far enough apart for the curve to take several values.
C28_Witness ==
    /\ spatial.last.called /\ spatial.obj.enabled_
    /\ spatial.obj.innerRadius_ < spatial.last.dist
    /\ spatial.last.dist < spatial.obj.outerRadius_
    /\ spatial.last.volume < VolumeAt(spatial.last.dist - 1)
    /\ VolumeAt(spatial.last.dist - 1) < VolumeScale
    /\ spatial.last.volume > VolumeFloor
    /\ spatial.last.written

\* The events the transport delivers.
TransportEvents == {"Open", "Close", "Error", "Text", "Binary", "Control"}

\* C29 as stated: every change of the session state follows the graph:
\* Connecting is entered only by connect(), Connected only from Connecting or
\* Reconnecting, Reconnecting and Error only from Connected, Disconnected only
\* by disconnect() or by a connection loss with auto-reconnect disabled.
C29_StateGraph ==
    [][ state_' # state_ =>
          /\ state_' = "Connecting" => lastCall' = "connect"
          /\ state_' = "Connected" => state_ \in {"Connecting", "Reconnecting"}
          /\ state_' \in {"Reconnecting", "Error"} => state_ = "Connected"
          /\ state_' = "Disconnected" =>
                \/ lastCall' = "disconnect"
                \/ lastCall' = "Close" /\ ~autoReconnect_ ]_vars

\* C29, amended: Connecting is entered only by connect(); Connected only by
\* the transport's Open event; Reconnecting only from Connected, by a
\* connection loss with auto-reconnect enabled; Error only by a transport
\* Error event; Disconnected only by disconnect() or by a connection loss
\* with auto-reconnect disabled.  No transport event moves the state from
\* Connecting to Reconnecting.
C29_StateGraphOfTheCode ==
    [][ state_' # state_ =>
          /\ state_' = "Connecting" => lastCall' = "connect"
          /\ state_' = "Connected" => lastCall' = "Open"
          /\ state_' = "Reconnecting" =>
                state_ = "Connected" /\ lastCall' = "Close" /\ autoReconnect_
          /\ state_' = "Error" => lastCall' = "Error"
          /\ state_' = "Disconnected" =>
                \/ lastCall' = "disconnect"
                \/ lastCall' = "Close" /\ ~autoReconnect_ ]_vars

\* Connected by Open after a failed attempt was recorded: Error, then Open.
C29_Witness ==
    /\ state_ = "Connected"
    /\ lastCall = "Open"
    /\ lastError_ # ""

\* Two transitions the statement rules out and the Open arm makes.
C29_ErrorToConnected == [][ ~(state_ = "Error" /\ state_' = "Connected") ]_vars
C29_DisconnectedToConnected == [][ ~(state_ = "Disconnected" /\ state_' = "Connected") ]_vars

\* The positions in the last callback's steps of the steps of one kind.
StepsOf(ops) == { i \in 1..Len(playbackLog.steps) : playbackLog.steps[i].op \in ops }

DrainOps == {"pop", "lookup", "decode", "update"}

C31_CallbackTerminates == (callback.pc = "drain") ~> (callback.pc = "idle")

DistanceParams(s) == << s.innerRadius_, s.outerRadius_, s.rolloff_ >>

\* C33: the inner radius, outer radius and rolloff configured on the pipeline
\* are those of the spatializer of every peer whose packet the last playback
\* callback spatialized.
C33_ConfiguredParamsUsed ==
    \A k \in 1..Len(playbackLog.drained) :
        playbackLog.drained[k].samples > 0 =>
            DistanceParams(audioEngine_.peers_[playbackLog.drained[k].id].spatial)
                = DistanceParams(audioEngine_.spatialAudio_)

\* C34: a peer's buffered audio is not mixed until PREBUFFER_FRAMES frames of
\* stereo samples have accumulated in its jitter buffer since it started
\* sending: a peer created by the last playback callback is mixed by it only
\* from a buffer holding that much.
C34_PrebufferBeforeMix ==
    \A k \in 1..Len(playbackLog.drained) : \A m \in 1..Len(playbackLog.mixed) :
        (/\ ~playbackLog.drained[k].existed
         /\ playbackLog.mixed[m].id = playbackLog.drained[k].id
         /\ playbackLog.mixed[m].real # <<>>)
        => SampleCount(playbackLog.mixed[m].buffered) >= PREBUFFER_STEREO_SAMPLES

\* C35: the peer table holds an entry for a sender exactly when a playback
\* callback has drained a packet from it since the last shutdown, and an
\* entry is active only if a packet from that sender has been decoded since.
\* (The table is a map: one entry per key.)
C35_LazyPeerState ==
    /\ DOMAIN audioEngine_.peers_ = drainedFrom.ids
    /\ \A id \in DOMAIN audioEngine_.peers_ :
          audioEngine_.peers_[id].active => id \in drainedFrom.decoded

\* After a shutdown emptied a table that held an entry, a sender drained
\* again without a decoded packet: its entry is there and inactive.
C35_Witness ==
    /\ playbackLog.ran
    /\ \E k \in 1..Len(playbackLog.drained) :
          /\ ~playbackLog.drained[k].existed
          /\ playbackLog.drained[k].id \in DOMAIN audioEngine_.peers_
          /\ ~audioEngine_.peers_[playbackLog.drained[k].id].active
    /\ Cardinality(DOMAIN audioEngine_.peers_) = 1
    /\ bytesReceived_ > INCOMING_HEADER_SIZE + 1

\* C36: a capture callback that runs while the microphone is muted hands no
\* packet to the relay client, leaves is-speaking false and the input level
\* 0, and changes neither the partial-frame accumulator nor the hold counter.
C36_MutedCallback ==
    [][(audioEngine_.micMuted_ /\ CaptureCallback) =>
          /\ sent' = <<>> /\ bytesSent_' = bytesSent_
          /\ captureLog'.frames = <<>>
          /\ ~audioEngine_'.isSpeaking_
          /\ audioEngine_'.currentInputLevel_ = 0
          /\ audioEngine_'.captureAccumPos_ = audioEngine_.captureAccumPos_
          /\ audioEngine_'.captureAccumBuffer_ = audioEngine_.captureAccumBuffer_
          /\ audioEngine_'.holdFramesRemaining_ = audioEngine_.holdFramesRemaining_]_vars

\* A muted callback has run during a hold and with a partial frame kept: in
\* voice activation only that leaves a running hold with is-speaking false.
C36_Witness ==
    /\ audioEngine_.micMuted_ /\ audioEngine_.captureStream_
    /\ ~audioEngine_.pushToTalk_
    /\ audioEngine_.holdFramesRemaining_ > 0
    /\ audioEngine_.captureAccumPos_ > 0
    /\ ~audioEngine_.isSpeaking_ /\ audioEngine_.currentInputLevel_ = 0
    /\ lastCall = "processCapturedAudio"
    /\ captureLog.frames = <<>>

\* What a step may do to the session: a packet is handed to the transport
\* only in state Connected with a session id, a session id is set only by
\* joinRoom() in state Connected, Connected is entered only by Open on a
\* running transport, and only connect() starts the transport.
SessionStep ==
    /\ (bytesSent_' # bytesSent_) =>
           (state_ = "Connected" /\ currentMatchId_ # "" /\ webSocket_.running)
    /\ (currentMatchId_ = "" /\ currentMatchId_' # "") =>
           (lastCall' = "joinRoom" /\ state_ = "Connected")
    /\ (state_ # "Connected" /\ state_' = "Connected") =>
           (lastCall' = "Open" /\ webSocket_.running)
    /\ (~webSocket_.running /\ webSocket_.running') =>
           (lastCall' = "connect")

C38_JoinBeforeAudio ==
    [][(bytesSent_' # bytesSent_) => link = currentMatchId_]_vars

\* C39: a non-empty roster implies that the session state is Connected and
\* that a session id is set.
C39_RosterOnlyInRoom ==
    peers_ # NoPeers => (state_ = "Connected" /\ currentMatchId_ # "")

\* C40: whenever handleTextMessage invokes a roster callback (peer joined,
\* peer left) the roster mutex is not held, so that the callback may lock it
\* (getConnectedPeers, leaveRoom, disconnect): std::mutex is not recursive.
C40_CallbacksOutsideLock ==
    \A a \in inCall["network"].accesses :
        a.field \in RosterCallbacks => "peersMutex_" \notin a.held

====
